---- MODULE Spec2Model ----
(***************************************************************************)
(* Model of the multi-GPU worker supervisor script (src/unnamed/part_001): *)
(* unit launch, health polling, per-unit restart, fleet-idle shutdown,     *)
(* signal trap and instance termination.                                   *)
(*                                                                         *)
(* The script is one sequential bash process: pc is the command it is at.  *)
(* Every supervisor action is one command (or one loop) of the script;     *)
(* between two commands the environment may act: a child process dies, a   *)
(* backend starts listening, a tunnel prints its URL, a worker writes its  *)
(* idle flag, an operator sends SIGINT/SIGTERM.                            *)
(***************************************************************************)
EXTENDS Integers, Sequences, FiniteSets, TLC

\* ---------------------------------------------------------------- bounds
\* Longest --gpus list explored (and the GPU count nvidia-smi reports).
MaxGpus == 2

\* Number of child processes the environment lets die on their own.
MaxDeaths == 1

\* ------------------------------------------------------ program constants
\* for attempt in {1..30}
TUNNEL_ATTEMPTS == 30

\* IDLE_TIMEOUT=300
DEFAULT_IDLE_TIMEOUT == 300

\* [ "$IDLE_TIMEOUT" -lt 60 ]
MIN_IDLE_TIMEOUT == 60

\* TOTAL_GPUS=$(nvidia-smi -L | wc -l): the ids 0..TOTAL_GPUS-1 pass validation.
TOTAL_GPUS == MaxGpus

GpuIds == 0 .. (TOTAL_GPUS - 1)

\* The --gpus lists that pass validation, one per renaming of the GPU ids:
\* the first id is 0 and each further id is at most one more than the
\* largest before it.  A list may repeat an id (validation does not dedupe).
RECURSIVE MaxOf(_)
MaxOf(s) == IF Len(s) = 0 THEN 0 - 1
            ELSE LET m == MaxOf(SubSeq(s, 1, Len(s) - 1))
                 IN  IF s[Len(s)] > m THEN s[Len(s)] ELSE m

GpuLists ==
    { l \in UNION { [1..n -> GpuIds] : n \in 1..MaxGpus } :
        \A k \in 1..Len(l) : l[k] <= MaxOf(SubSeq(l, 1, k - 1)) + 1 }

VARIABLES
    workerStatus,          \* worker sidebar: this.workerStatus
    isWorkerActive,        \* worker sidebar: this.isWorkerActive
    hasWorkerProcess,      \* worker sidebar: this.hasWorkerProcess
    activeWorkers,         \* worker sidebar: this.activeWorkers
    totalWorkers,          \* worker sidebar: this.totalWorkers
    sidebarElement,        \* worker sidebar: the tab has been rendered
    display,               \* worker sidebar: button -> style.display
    inflight,              \* worker sidebar: endpoint -> requests not yet resolved
    result,                \* worker sidebar: last /obobo/worker_status outcome
    consoleError,          \* worker sidebar: last console.error message
    rwArgs,                \* run_workers.sh: options not yet parsed
    rwIdleTimeout,         \* run_workers.sh: IDLE_TIMEOUT
    rwNoShutdown,          \* run_workers.sh: NO_SHUTDOWN
    rwShutdownMachine,     \* run_workers.sh: SHUTDOWN_MACHINE_FLAG is set
    rwPc,                  \* run_workers.sh: where the script is
    argv,                  \* option values not yet parsed: --gpus, --idle_timeout
    GPUS,                  \* validated list of GPU ids (a sequence)
    IDLE_TIMEOUT,          \* seconds, passed to every job worker
    exitStatus,            \* 1 once the script has ended in exit 1
    INSTANCE_ID,           \* first argument; "" when given empty
    SHUTDOWN_MACHINE_FLAG, \* TRUE iff --shutdown_machine was given
    PIDS,                  \* every pid ever appended by start_worker
    COMFYUI_PIDS,          \* gpu id -> backend pid, 0 = unset
    CLOUDFLARED_PIDS,      \* gpu id -> tunnel pid, 0 = unset
    WORKER_PIDS,           \* gpu id -> job-worker pid, 0 = unset
    ptable,                \* pid -> what was spawned (kind, gpu)
    alive,                 \* pids for which kill -0 succeeds
    listening,             \* backend pids answering on their port
    flagFile,              \* gpu id -> /tmp/worker_shutdown_<id>.flag exists
    counted,               \* gpu ids whose present flag file an idle check has seen
    flagContent,           \* what this run's job workers write into that file
    tunnelLog,             \* gpu id -> /tmp/cloudflared_<id>.log: absent/empty/url
    pc,                    \* command the supervisor is at
    i,                     \* loop index into GPUS (1-based)
    caller,                \* who called start_worker: "startup" or "monitor"
    attempt,               \* attempt of the tunnel-URL loop
    tunnel_url,            \* local tunnel_url of start_worker
    trapRunning,           \* the SIGINT/SIGTERM trap handler is executing
    sigTERM,               \* pids sent TERM by the teardown in progress
    sigKILL,               \* pids sent KILL by the teardown in progress
    path,                  \* shutdown decision of the main loop, "none" before it
    terminateCalls,        \* invocations of terminate_ec2_instance
    awsResult,             \* outcome of aws ec2 terminate-instances
    powerOffs,             \* invocations of sudo shutdown -h now
    deaths,                \* processes that died on their own so far
    registered,            \* gpu ids whose worker the control plane answers 200 for
    graceElapsed,          \* GRACE_SECONDS have passed since monitoring began
    watchdog               \* state of the registration watchdog subshell

vars == << workerStatus, isWorkerActive, hasWorkerProcess, activeWorkers,
           totalWorkers, sidebarElement, display, inflight, result,
           consoleError,
           rwArgs, rwIdleTimeout, rwNoShutdown, rwShutdownMachine, rwPc,
           argv, IDLE_TIMEOUT, exitStatus, GPUS, INSTANCE_ID, SHUTDOWN_MACHINE_FLAG, PIDS, COMFYUI_PIDS,
           CLOUDFLARED_PIDS, WORKER_PIDS, ptable, alive, listening, flagFile,
           counted,
           flagContent, tunnelLog, pc, i, caller, attempt, tunnel_url, trapRunning,
           sigTERM, sigKILL, path, terminateCalls, awsResult, powerOffs,
           deaths, registered, graceElapsed, watchdog >>

\* The state of the worker sidebar of the ComfyUI extension
\* (src/worker/js/obobo-worker-manager.js), a program of its own that runs
\* in the browser; no command of the scripts touches it.
oboboWorkerManager ==
    << workerStatus, isWorkerActive, hasWorkerProcess, activeWorkers,
       totalWorkers, sidebarElement, display, inflight, result, consoleError >>

\* The state of run_workers.sh, the supervisor's older variant, a script of
\* its own that no command of the supervisor touches.
runWorkers == << rwArgs, rwIdleTimeout, rwNoShutdown, rwShutdownMachine, rwPc >>

\* What does not change after argument parsing and validation: the
\* settings, the job workers' program, of which the flag payload is a part,
\* and the exit status (every later exit is exit 0).
config   == << argv, IDLE_TIMEOUT, exitStatus, GPUS, INSTANCE_ID,
              SHUTDOWN_MACHINE_FLAG, flagContent, runWorkers,
              oboboWorkerManager >>
handles  == << COMFYUI_PIDS, CLOUDFLARED_PIDS, WORKER_PIDS >>
procs    == << PIDS, ptable, alive, listening >>
files    == << flagFile, tunnelLog, counted >>
signals  == << sigTERM, sigKILL >>
instance == << terminateCalls, awsResult, powerOffs >>
plane    == << registered, graceElapsed, watchdog >>
locals   == << attempt, tunnel_url >>

NUM_GPUS == Len(GPUS)

GpuSet == { GPUS[k] : k \in 1..NUM_GPUS }

\* The pids of a given kind spawned for a given gpu id.
PidsOf(kind, g) ==
    { p \in 1..Len(ptable) : ptable[p].kind = kind /\ ptable[p].gpu = g }

\* The three handles currently recorded for gpu id g (0 left out).
HandlesOf(g) == { COMFYUI_PIDS[g], CLOUDFLARED_PIDS[g], WORKER_PIDS[g] } \ {0}

\* curl -s http://127.0.0.1:$comfyui_port succeeds.
PortResponds(g) == PidsOf("comfyui", g) \cap alive \cap listening # {}

\* The state after argument parsing and GPU validation, the job workers'
\* program left open.
Parsed ==
    /\ argv = [gpus |-> << >>, timeout |-> << >>]
    /\ IDLE_TIMEOUT = DEFAULT_IDLE_TIMEOUT
    /\ exitStatus = 0
    /\ GPUS \in GpuLists
    /\ INSTANCE_ID \in {"", "ec2"}
    /\ SHUTDOWN_MACHINE_FLAG \in BOOLEAN
    /\ PIDS = {}
    /\ COMFYUI_PIDS = [g \in GpuIds |-> 0]
    /\ CLOUDFLARED_PIDS = [g \in GpuIds |-> 0]
    /\ WORKER_PIDS = [g \in GpuIds |-> 0]
    /\ ptable = << >>
    /\ alive = {}
    /\ listening = {}
    \* files left behind by an earlier run of the supervisor
    /\ flagFile \in [GpuIds -> BOOLEAN]
    /\ counted = {}
    /\ \A g \in GpuIds : flagFile[g] => g \in GpuSet
    /\ tunnelLog = [g \in GpuIds |-> "absent"]
    /\ pc = "clear_flags"
    /\ i = 1
    /\ caller = "startup"
    /\ attempt = 1
    /\ tunnel_url = ""
    /\ trapRunning = FALSE
    /\ sigTERM = {}
    /\ sigKILL = {}
    /\ path = "none"
    /\ terminateCalls = 0
    /\ awsResult = "none"
    /\ powerOffs = 0
    /\ deaths = 0
    /\ registered = {}
    /\ graceElapsed = FALSE
    /\ watchdog = "not_started"

\* The buttons of the worker sidebar and the endpoints it calls.
Buttons == {"start", "stop", "resume", "claim"}

Endpoints == {"worker_status", "start_worker", "stop_worker", "resume_worker"}

\* No browser has loaded the extension: the fields as the constructor would
\* set them (lines 8-13), no sidebar and no request.
ManagerNotLoaded ==
    /\ workerStatus = "No Worker"
    /\ isWorkerActive = FALSE
    /\ hasWorkerProcess = FALSE
    /\ activeWorkers = 0
    /\ totalWorkers = 0
    /\ sidebarElement = FALSE
    /\ display = [b \in Buttons |-> "absent"]
    /\ inflight = [e \in Endpoints |-> 0]
    /\ result = [outcome |-> "none", active_workers |-> 0, total_workers |-> 0]
    /\ consoleError = ""

\* run_workers.sh is not running.
RwNotRun ==
    /\ rwArgs = << >>
    /\ rwIdleTimeout = DEFAULT_IDLE_TIMEOUT
    /\ rwNoShutdown = FALSE
    /\ rwShutdownMachine = FALSE
    /\ rwPc = "not_run"

\* The job worker (main.py) writes the flag file; the payload it writes says
\* "stop this process only" or "stop the whole machine".  The script passes
\* every worker the same arguments (lines 201-209), so every worker of one
\* run writes the same payload.
FlagContents == {"SHUTDOWN_PROCESS", "SHUTDOWN_MACHINE"}

\* The script tests the flag files with -f only and reads none, so the
\* payload changes none of its steps; for the properties that do not mention
\* the payload one payload per setting is explored, the one that goes with
\* the $SHUTDOWN_MACHINE_FLAG the worker is passed (line 209).
Init ==
    /\ Parsed
    /\ RwNotRun
    /\ ManagerNotLoaded
    /\ flagContent = IF SHUTDOWN_MACHINE_FLAG THEN "SHUTDOWN_MACHINE"
                                             ELSE "SHUTDOWN_PROCESS"

\* Either payload, whatever the worker is passed.
PayloadInit ==
    /\ Parsed
    /\ RwNotRun
    /\ ManagerNotLoaded
    /\ flagContent \in FlagContents

\* ------------------------------------------------------------- startup
\* Lines 382-388: remove the shutdown flag of every configured worker, then
\* enter the initial launch loop (line 391) at its first element.
clear_flags ==
    /\ pc = "clear_flags"
    /\ flagFile' = [g \in GpuIds |-> IF g \in GpuSet THEN FALSE ELSE flagFile[g]]
    /\ counted' = counted \ GpuSet
    /\ pc' = "sw_backend"
    /\ i' = 1
    /\ caller' = "startup"
    /\ UNCHANGED << config, handles, procs, tunnelLog, locals, trapRunning,
                    signals, path, instance, deaths, plane >>

\* -------------------------------------------------------- start_worker
\* Lines 153-159: spawn the backend, append its pid, record the handle.
sw_backend ==
    /\ pc = "sw_backend"
    /\ LET g == GPUS[i]
           pid == Len(ptable) + 1
       IN  /\ ptable' = Append(ptable, [kind |-> "comfyui", gpu |-> g])
           /\ alive' = alive \cup {pid}
           /\ PIDS' = PIDS \cup {pid}
           /\ COMFYUI_PIDS' = [COMFYUI_PIDS EXCEPT ![g] = pid]
    /\ pc' = "sw_wait"
    /\ UNCHANGED << config, CLOUDFLARED_PIDS, WORKER_PIDS, listening, files, i,
                    caller, locals, trapRunning, signals, path, instance,
                    deaths, plane >>

\* Variant of lines 161-167 without the readiness loop.
sw_wait_noready ==
    /\ pc = "sw_wait"
    /\ pc' = "sw_tunnel"
    /\ UNCHANGED << config, handles, procs, files, i, caller, locals,
                    trapRunning, signals, path, instance, deaths, plane >>

\* Variant of lines 161-167 whose loop also ends when the backend process
\* it waits for no longer exists.
sw_wait_giveup ==
    /\ pc = "sw_wait"
    /\ PortResponds(GPUS[i]) \/ COMFYUI_PIDS[GPUS[i]] \notin alive
    /\ pc' = "sw_tunnel"
    /\ UNCHANGED << config, handles, procs, files, i, caller, locals,
                    trapRunning, signals, path, instance, deaths, plane >>

\* Lines 161-167: the readiness loop ends once the port answers.
sw_wait ==
    /\ pc = "sw_wait"
    /\ PortResponds(GPUS[i])
    /\ pc' = "sw_tunnel"
    /\ UNCHANGED << config, handles, procs, files, i, caller, locals,
                    trapRunning, signals, path, instance, deaths, plane >>

\* Variant of lines 169-178 without CLOUDFLARED_PIDS[$gpu_id]=$cloudflared_pid.
sw_tunnel_norecord ==
    /\ pc = "sw_tunnel"
    /\ LET g == GPUS[i]
           pid == Len(ptable) + 1
       IN  /\ ptable' = Append(ptable, [kind |-> "cloudflared", gpu |-> g])
           /\ alive' = alive \cup {pid}
           /\ PIDS' = PIDS \cup {pid}
           /\ tunnelLog' = [tunnelLog EXCEPT ![g] = "empty"]
    /\ tunnel_url' = ""
    /\ attempt' = 1
    /\ pc' = "sw_url"
    /\ UNCHANGED << config, handles, listening, flagFile, counted, i, caller,
                    trapRunning, signals, path, instance, deaths, plane >>

\* Lines 169-178: spawn the tunnel with its output redirected to the log.
sw_tunnel ==
    /\ pc = "sw_tunnel"
    /\ LET g == GPUS[i]
           pid == Len(ptable) + 1
       IN  /\ ptable' = Append(ptable, [kind |-> "cloudflared", gpu |-> g])
           /\ alive' = alive \cup {pid}
           /\ PIDS' = PIDS \cup {pid}
           /\ CLOUDFLARED_PIDS' = [CLOUDFLARED_PIDS EXCEPT ![g] = pid]
           /\ tunnelLog' = [tunnelLog EXCEPT ![g] = "empty"]
    /\ tunnel_url' = ""
    /\ attempt' = 1
    /\ pc' = "sw_url"
    /\ UNCHANGED << config, COMFYUI_PIDS, WORKER_PIDS, listening, flagFile, counted, i,
                    caller, trapRunning, signals, path, instance, deaths,
                    plane >>

\* Variant of lines 179-198 that gives the launch up (exit 1) when the
\* attempts are used up without a URL.
sw_url_abort ==
    /\ pc = "sw_url"
    /\ IF tunnelLog[GPUS[i]] = "url"
       THEN /\ tunnel_url' = "url"
            /\ pc' = "sw_worker"
            /\ attempt' = 1
       ELSE /\ UNCHANGED tunnel_url
            /\ IF attempt < TUNNEL_ATTEMPTS
               THEN attempt' = attempt + 1 /\ UNCHANGED pc
               ELSE pc' = "exited" /\ attempt' = 1
    /\ UNCHANGED << config, handles, procs, files, i, caller, trapRunning,
                    signals, path, instance, deaths, plane >>

\* Lines 179-191: one iteration of the tunnel-URL loop.  The loop variable
\* is not read after the loop, so it is put back to 1 when the loop ends.
sw_url ==
    /\ pc = "sw_url"
    /\ IF tunnelLog[GPUS[i]] = "url"
       THEN /\ tunnel_url' = "url"
            /\ pc' = "sw_worker"
            /\ attempt' = 1
       ELSE /\ UNCHANGED tunnel_url
            /\ IF attempt < TUNNEL_ATTEMPTS
               THEN attempt' = attempt + 1 /\ UNCHANGED pc
               ELSE pc' = "sw_worker" /\ attempt' = 1
    /\ UNCHANGED << config, handles, procs, files, i, caller, trapRunning,
                    signals, path, instance, deaths, plane >>

\* Variant of lines 200-220 whose launch loop (line 391) stops after its
\* first element.
sw_worker_onlyfirst ==
    /\ pc = "sw_worker"
    /\ LET g == GPUS[i]
           pid == Len(ptable) + 1
       IN  /\ ptable' = Append(ptable, [kind |-> "worker", gpu |-> g])
           /\ alive' = alive \cup {pid}
           /\ PIDS' = PIDS \cup {pid}
           /\ WORKER_PIDS' = [WORKER_PIDS EXCEPT ![g] = pid]
    /\ IF caller = "startup"
       THEN pc' = "check_flags" /\ i' = 1 /\ caller' = "monitor"
       ELSE /\ UNCHANGED caller
            /\ IF i < NUM_GPUS
               THEN pc' = "health" /\ i' = i + 1
               ELSE pc' = "remaining" /\ UNCHANGED i
    /\ tunnel_url' = ""
    /\ UNCHANGED << config, COMFYUI_PIDS, CLOUDFLARED_PIDS, listening, files,
                    attempt, trapRunning, signals, path, instance, deaths,
                    plane >>

\* Variant of lines 200-220 without line 212: the worker pid is appended to
\* PIDS but not recorded as the unit's worker handle.
sw_worker_norecord ==
    /\ pc = "sw_worker"
    /\ LET pid == Len(ptable) + 1
       IN  /\ ptable' = Append(ptable, [kind |-> "worker", gpu |-> GPUS[i]])
           /\ alive' = alive \cup {pid}
           /\ PIDS' = PIDS \cup {pid}
    /\ IF caller = "startup"
       THEN IF i < NUM_GPUS
            THEN pc' = "sw_backend" /\ i' = i + 1 /\ UNCHANGED caller
            ELSE pc' = "check_flags" /\ i' = 1 /\ caller' = "monitor"
       ELSE /\ UNCHANGED caller
            /\ IF i < NUM_GPUS
               THEN pc' = "health" /\ i' = i + 1
               ELSE pc' = "remaining" /\ UNCHANGED i
    /\ tunnel_url' = ""
    /\ UNCHANGED << config, handles, listening, files, attempt, trapRunning,
                    signals, path, instance, deaths, plane >>

\* Lines 200-220: spawn the job worker and return to the caller: the launch
\* loop (line 391) or the health loop (line 405).  The local tunnel_url ends
\* with the function.
sw_worker ==
    /\ pc = "sw_worker"
    /\ LET g == GPUS[i]
           pid == Len(ptable) + 1
       IN  /\ ptable' = Append(ptable, [kind |-> "worker", gpu |-> g])
           /\ alive' = alive \cup {pid}
           /\ PIDS' = PIDS \cup {pid}
           /\ WORKER_PIDS' = [WORKER_PIDS EXCEPT ![g] = pid]
    /\ IF caller = "startup"
       THEN IF i < NUM_GPUS
            THEN pc' = "sw_backend" /\ i' = i + 1 /\ UNCHANGED caller
            ELSE pc' = "check_flags" /\ i' = 1 /\ caller' = "monitor"
       ELSE /\ UNCHANGED caller
            /\ IF i < NUM_GPUS
               THEN pc' = "health" /\ i' = i + 1
               ELSE pc' = "remaining" /\ UNCHANGED i
    /\ tunnel_url' = ""
    /\ UNCHANGED << config, COMFYUI_PIDS, CLOUDFLARED_PIDS, listening, files,
                    attempt, trapRunning, signals, path, instance, deaths,
                    plane >>

\* ------------------------------------------- check_worker_shutdown_flags
\* Variant of lines 231-232 that probes the worker process (kill -0) instead
\* of testing the pid entry.
active_workers_alive ==
    Cardinality({ k \in 1..NUM_GPUS : WORKER_PIDS[GPUS[k]] \in alive })

\* Lines 225-238: the list positions whose gpu id still has a worker pid
\* entry, and those among them whose flag file exists.
active_workers ==
    Cardinality({ k \in 1..NUM_GPUS : WORKER_PIDS[GPUS[k]] # 0 })

flagged_idle_workers ==
    Cardinality({ k \in 1..NUM_GPUS : WORKER_PIDS[GPUS[k]] # 0 /\ flagFile[GPUS[k]] })

\* Variant of line 240 that decides nothing while a recorded process of a
\* configured worker is dead (health first).
FleetIdle_healthy ==
    /\ active_workers > 0
    /\ flagged_idle_workers = active_workers
    /\ \A g \in GpuSet : HandlesOf(g) \subseteq alive

\* Variant of line 240: any flagged worker counts as fleet idleness.
FleetIdle_any == active_workers > 0 /\ flagged_idle_workers > 0

\* Line 240.
FleetIdle == active_workers > 0 /\ flagged_idle_workers = active_workers

\* Variant of lines 240-250 that picks the teardown by the payload of the
\* flag files (grep -q SHUTDOWN_MACHINE) instead of by --shutdown_machine.
check_worker_shutdown_flags_bycontent ==
    /\ pc = "check_flags"
    /\ IF FleetIdle
       THEN /\ IF flagContent = "SHUTDOWN_MACHINE"
               THEN pc' = "ms_term" /\ path' = "idle_instance"
               ELSE pc' = "ca_term" /\ path' = "idle_local"
            /\ UNCHANGED i
       ELSE /\ pc' = "health"
            /\ i' = 1
            /\ UNCHANGED path
    /\ counted' = counted \cup { g \in GpuSet : WORKER_PIDS[g] # 0 /\ flagFile[g] }
    /\ UNCHANGED << config, handles, procs, flagFile, tunnelLog, caller, locals,
                    trapRunning, signals, instance, deaths, plane >>

\* Lines 222-252, called at line 402: decide, then either start a fleet-wide
\* teardown or go on to the health loop.
check_worker_shutdown_flags ==
    /\ pc = "check_flags"
    /\ IF FleetIdle
       THEN /\ IF SHUTDOWN_MACHINE_FLAG
               THEN pc' = "ms_term" /\ path' = "idle_instance"
               ELSE pc' = "ca_term" /\ path' = "idle_local"
            /\ UNCHANGED i
       ELSE /\ pc' = "health"
            /\ i' = 1
            /\ UNCHANGED path
    /\ counted' = counted \cup { g \in GpuSet : WORKER_PIDS[g] # 0 /\ flagFile[g] }
    /\ UNCHANGED << config, handles, procs, flagFile, tunnelLog, caller, locals,
                    trapRunning, signals, instance, deaths, plane >>

\* ------------------------------------------------------- health loop
\* Variant of lines 407-416 that leaves out the backend pid (lines 408-410).
died_nobackend(g) ==
    \/ WORKER_PIDS[g] # 0 /\ WORKER_PIDS[g] \notin alive
    \/ CLOUDFLARED_PIDS[g] # 0 /\ CLOUDFLARED_PIDS[g] \notin alive

\* Variant of lines 407-416 that leaves out the tunnel pid (lines 414-416).
died_notunnel(g) ==
    \/ COMFYUI_PIDS[g] # 0 /\ COMFYUI_PIDS[g] \notin alive
    \/ WORKER_PIDS[g] # 0 /\ WORKER_PIDS[g] \notin alive

\* Variant of lines 407-416 that leaves out the worker pid (lines 411-413).
died_noworker(g) ==
    \/ COMFYUI_PIDS[g] # 0 /\ COMFYUI_PIDS[g] \notin alive
    \/ CLOUDFLARED_PIDS[g] # 0 /\ CLOUDFLARED_PIDS[g] \notin alive

\* Lines 407-416: a recorded handle whose process no longer exists.
died(g) ==
    \/ COMFYUI_PIDS[g] # 0 /\ COMFYUI_PIDS[g] \notin alive
    \/ WORKER_PIDS[g] # 0 /\ WORKER_PIDS[g] \notin alive
    \/ CLOUDFLARED_PIDS[g] # 0 /\ CLOUDFLARED_PIDS[g] \notin alive

\* Lines 405-422: one iteration of the health loop.
health ==
    /\ pc = "health"
    /\ IF died(GPUS[i])
       THEN pc' = "cw_comfyui" /\ UNCHANGED i
       ELSE IF i < NUM_GPUS
            THEN pc' = "health" /\ i' = i + 1
            ELSE pc' = "remaining" /\ UNCHANGED i
    /\ UNCHANGED << config, handles, procs, files, caller, locals, trapRunning,
                    signals, path, instance, deaths, plane >>

\* ------------------------------------------------------ cleanup_worker
\* Variant of lines 123-137 without the kill -0 test: TERM and then KILL go
\* to every recorded handle, whether its process exists or not.
cw_term_nocheck(here, pid, kill, next) ==
    /\ pc = here
    /\ IF pid # 0
       THEN sigTERM' = sigTERM \cup {pid} /\ pc' = kill
       ELSE UNCHANGED sigTERM /\ pc' = next
    /\ UNCHANGED << config, handles, procs, files, i, caller, locals,
                    trapRunning, sigKILL, path, instance, deaths, plane >>

\* Lines 123-137, first half of each block: if the handle is set and its
\* process exists, send TERM (and go to sleep 1); otherwise skip the block.
cw_term(here, pid, kill, next) ==
    /\ pc = here
    /\ IF pid # 0 /\ pid \in alive
       THEN sigTERM' = sigTERM \cup {pid} /\ pc' = kill
       ELSE UNCHANGED sigTERM /\ pc' = next
    /\ UNCHANGED << config, handles, procs, files, i, caller, locals,
                    trapRunning, sigKILL, path, instance, deaths, plane >>

\* Second half of each block: after sleep 1, kill -KILL the same pid.
cw_kill(here, pid, next) ==
    /\ pc = here
    /\ sigKILL' = sigKILL \cup ({pid} \cap alive)
    /\ alive' = alive \ {pid}
    /\ listening' = listening \ {pid}
    /\ pc' = next
    /\ UNCHANGED << config, handles, PIDS, ptable, files, i, caller, locals,
                    trapRunning, sigTERM, path, instance, deaths, plane >>

cw_comfyui == cw_term("cw_comfyui", COMFYUI_PIDS[GPUS[i]], "cw_comfyui_kill", "cw_worker")

cw_comfyui_kill == cw_kill("cw_comfyui_kill", COMFYUI_PIDS[GPUS[i]], "cw_worker")

cw_worker == cw_term("cw_worker", WORKER_PIDS[GPUS[i]], "cw_worker_kill", "cw_cloudflared")

cw_worker_kill == cw_kill("cw_worker_kill", WORKER_PIDS[GPUS[i]], "cw_cloudflared")

cw_cloudflared == cw_term("cw_cloudflared", CLOUDFLARED_PIDS[GPUS[i]], "cw_cloudflared_kill", "cw_rm")

\* Variant of lines 133-137 that kills by name (pkill -f cloudflared), as
\* the fleet-wide teardown does, instead of by the unit's recorded pid.
cw_cloudflared_kill_byname ==
    /\ pc = "cw_cloudflared_kill"
    /\ LET T == { p \in alive : ptable[p].kind = "cloudflared" }
       IN  /\ sigKILL' = sigKILL \cup T
           /\ alive' = alive \ T
           /\ listening' = listening \ T
    /\ pc' = "cw_rm"
    /\ UNCHANGED << config, handles, PIDS, ptable, files, i, caller, locals,
                    trapRunning, sigTERM, path, instance, deaths, plane >>

cw_cloudflared_kill == cw_kill("cw_cloudflared_kill", CLOUDFLARED_PIDS[GPUS[i]], "cw_rm")

\* Variant of lines 138-143 that gives the unit up: its gpu id is taken out
\* of GPUS and the health loop goes on with what is left.
cw_rm_dropslot ==
    /\ pc = "cw_rm"
    /\ LET g == GPUS[i]
       IN  /\ tunnelLog' = [tunnelLog EXCEPT ![g] = "absent"]
           /\ flagFile' = [flagFile EXCEPT ![g] = FALSE]
           /\ counted' = counted \ {g}
           /\ COMFYUI_PIDS' = [COMFYUI_PIDS EXCEPT ![g] = 0]
           /\ WORKER_PIDS' = [WORKER_PIDS EXCEPT ![g] = 0]
           /\ CLOUDFLARED_PIDS' = [CLOUDFLARED_PIDS EXCEPT ![g] = 0]
    /\ sigTERM' = {}
    /\ sigKILL' = {}
    /\ IF NUM_GPUS > 1
       THEN /\ GPUS' = SubSeq(GPUS, 1, i - 1) \o SubSeq(GPUS, i + 1, NUM_GPUS)
            /\ IF i < NUM_GPUS
               THEN pc' = "health" /\ UNCHANGED i
               ELSE pc' = "remaining" /\ i' = i - 1
       ELSE /\ UNCHANGED << GPUS, i >>
            /\ pc' = "sw_backend"
    /\ UNCHANGED << runWorkers, oboboWorkerManager, argv, IDLE_TIMEOUT, exitStatus, INSTANCE_ID,
                    SHUTDOWN_MACHINE_FLAG, flagContent, procs, caller, locals,
                    trapRunning, path, instance, deaths, plane >>

\* Variant of lines 138-143 whose caller lacks the start_worker call of
\* line 420: the health loop goes on with the next unit.
cw_rm_norestart ==
    /\ pc = "cw_rm"
    /\ LET g == GPUS[i]
       IN  /\ tunnelLog' = [tunnelLog EXCEPT ![g] = "absent"]
           /\ flagFile' = [flagFile EXCEPT ![g] = FALSE]
           /\ counted' = counted \ {g}
           /\ COMFYUI_PIDS' = [COMFYUI_PIDS EXCEPT ![g] = 0]
           /\ WORKER_PIDS' = [WORKER_PIDS EXCEPT ![g] = 0]
           /\ CLOUDFLARED_PIDS' = [CLOUDFLARED_PIDS EXCEPT ![g] = 0]
    /\ sigTERM' = {}
    /\ sigKILL' = {}
    /\ IF i < NUM_GPUS
       THEN pc' = "health" /\ i' = i + 1
       ELSE pc' = "remaining" /\ UNCHANGED i
    /\ UNCHANGED << config, procs, caller, locals, trapRunning, path,
                    instance, deaths, plane >>

\* Variant of lines 138-143 that removes /tmp/cloudflared_*.log, as the
\* fleet-wide teardown does, instead of this worker's log.
cw_rm_all_logs ==
    /\ pc = "cw_rm"
    /\ LET g == GPUS[i]
       IN  /\ tunnelLog' = [h \in GpuIds |-> "absent"]
           /\ flagFile' = [flagFile EXCEPT ![g] = FALSE]
           /\ counted' = counted \ {g}
           /\ COMFYUI_PIDS' = [COMFYUI_PIDS EXCEPT ![g] = 0]
           /\ WORKER_PIDS' = [WORKER_PIDS EXCEPT ![g] = 0]
           /\ CLOUDFLARED_PIDS' = [CLOUDFLARED_PIDS EXCEPT ![g] = 0]
    /\ sigTERM' = {}
    /\ sigKILL' = {}
    /\ pc' = "sw_backend"
    /\ UNCHANGED << config, procs, i, caller, locals, trapRunning, path,
                    instance, deaths, plane >>

\* Lines 138-143: remove this worker's tunnel log and flag file, unset its
\* three handles; line 420 then calls start_worker for the same gpu id.
cw_rm ==
    /\ pc = "cw_rm"
    /\ LET g == GPUS[i]
       IN  /\ tunnelLog' = [tunnelLog EXCEPT ![g] = "absent"]
           /\ flagFile' = [flagFile EXCEPT ![g] = FALSE]
           /\ counted' = counted \ {g}
           /\ COMFYUI_PIDS' = [COMFYUI_PIDS EXCEPT ![g] = 0]
           /\ WORKER_PIDS' = [WORKER_PIDS EXCEPT ![g] = 0]
           /\ CLOUDFLARED_PIDS' = [CLOUDFLARED_PIDS EXCEPT ![g] = 0]
    /\ sigTERM' = {}
    /\ sigKILL' = {}
    /\ pc' = "sw_backend"
    /\ UNCHANGED << config, procs, i, caller, locals, trapRunning, path,
                    instance, deaths, plane >>

\* --------------------------------------------- end of a monitoring pass
\* Lines 425-431.
remaining_active ==
    Cardinality({ k \in 1..NUM_GPUS : WORKER_PIDS[GPUS[k]] # 0 })

\* Lines 432-440: terminate the instance when no worker entry is left,
\* otherwise sleep 30 and start the next pass.
remaining ==
    /\ pc = "remaining"
    /\ IF remaining_active = 0 /\ SHUTDOWN_MACHINE_FLAG
       THEN pc' = "ms_term" /\ path' = "no_active"
       ELSE pc' = "check_flags" /\ UNCHANGED path
    /\ UNCHANGED << config, handles, procs, files, i, caller, locals,
                    trapRunning, signals, instance, deaths, plane >>

\* ------------------------------------------------- fleet-wide teardown
\* Lines 41-46 / 87-92: TERM to every tracked pid that exists; the function
\* then sleeps (5 s / 3 s).
TermTracked(here, next) ==
    /\ pc = here
    /\ sigTERM' = PIDS \cap alive
    /\ sigKILL' = {}
    /\ pc' = next
    /\ UNCHANGED << config, handles, procs, files, i, caller, locals,
                    trapRunning, path, instance, deaths, plane >>

\* pkill -f of the three command-line patterns (lines 61-64, 107-110), run
\* after the KILL loop: TERM to every backend, worker and tunnel process
\* that loop left alive.
PkillTargets ==
    { p \in alive \ PIDS : ptable[p].kind \in {"comfyui", "worker", "cloudflared"} }

\* cleanup_for_machine_shutdown, lines 82-116, up to its sleep.
ms_term == TermTracked("ms_term", "ms_kill")

\* Variant of lines 97-115 that also removes the flag files of the
\* configured workers, as lines 70-76 of cleanup_all do.
ms_kill_rmflags ==
    /\ pc = "ms_kill"
    /\ sigKILL' = PIDS \cap alive
    /\ sigTERM' = sigTERM \cup PkillTargets
    /\ alive' = alive \ PIDS
    /\ listening' = listening \ PIDS
    /\ tunnelLog' = [g \in GpuIds |-> "absent"]
    /\ flagFile' = IF INSTANCE_ID # ""
                   THEN [g \in GpuIds |-> IF g \in GpuSet THEN FALSE ELSE flagFile[g]]
                   ELSE flagFile
    /\ counted' = IF INSTANCE_ID # "" THEN counted \ GpuSet ELSE counted
    /\ pc' = "terminate"
    /\ UNCHANGED << config, handles, PIDS, ptable, i, caller, locals,
                    trapRunning, path, instance, deaths, plane >>

\* Lines 97-115, after the sleep: KILL to every tracked pid that still
\* exists, pkill the three patterns, remove every tunnel log.
ms_kill ==
    /\ pc = "ms_kill"
    /\ sigKILL' = PIDS \cap alive
    /\ sigTERM' = sigTERM \cup PkillTargets
    /\ alive' = alive \ PIDS
    /\ listening' = listening \ PIDS
    /\ tunnelLog' = [g \in GpuIds |-> "absent"]
    /\ pc' = "terminate"
    /\ UNCHANGED << config, handles, PIDS, ptable, flagFile, counted, i, caller, locals,
                    trapRunning, path, instance, deaths, plane >>

\* cleanup_all, lines 36-80, up to its sleep.
ca_term == TermTracked("ca_term", "ca_kill")

\* Variant of lines 51-79 without the KILL loop.
ca_kill_noforce ==
    /\ pc = "ca_kill"
    /\ sigTERM' = sigTERM \cup PkillTargets
    /\ tunnelLog' = [g \in GpuIds |-> "absent"]
    /\ flagFile' = IF INSTANCE_ID # ""
                   THEN [g \in GpuIds |-> IF g \in GpuSet THEN FALSE ELSE flagFile[g]]
                   ELSE flagFile
    /\ counted' = IF INSTANCE_ID # "" THEN counted \ GpuSet ELSE counted
    /\ pc' = "exited"
    /\ UNCHANGED << config, handles, procs, i, caller, locals, trapRunning,
                    sigKILL, path, instance, deaths, plane >>

\* Variant of lines 51-79 that goes on to terminate_ec2_instance instead of
\* exit 0 (line 79).
ca_kill_terminates ==
    /\ pc = "ca_kill"
    /\ sigKILL' = PIDS \cap alive
    /\ sigTERM' = sigTERM \cup PkillTargets
    /\ alive' = alive \ PIDS
    /\ listening' = listening \ PIDS
    /\ tunnelLog' = [g \in GpuIds |-> "absent"]
    /\ flagFile' = IF INSTANCE_ID # ""
                   THEN [g \in GpuIds |-> IF g \in GpuSet THEN FALSE ELSE flagFile[g]]
                   ELSE flagFile
    /\ counted' = IF INSTANCE_ID # "" THEN counted \ GpuSet ELSE counted
    /\ pc' = "terminate"
    /\ UNCHANGED << config, handles, PIDS, ptable, i, caller, locals,
                    trapRunning, path, instance, deaths, plane >>

\* Lines 51-79, after the sleep: KILL to every tracked pid that still
\* exists, pkill, remove every tunnel log, remove the flag files of the
\* configured workers when INSTANCE_ID is non-empty, exit 0.
ca_kill ==
    /\ pc = "ca_kill"
    /\ sigKILL' = PIDS \cap alive
    /\ sigTERM' = sigTERM \cup PkillTargets
    /\ alive' = alive \ PIDS
    /\ listening' = listening \ PIDS
    /\ tunnelLog' = [g \in GpuIds |-> "absent"]
    /\ flagFile' = IF INSTANCE_ID # ""
                   THEN [g \in GpuIds |-> IF g \in GpuSet THEN FALSE ELSE flagFile[g]]
                   ELSE flagFile
    /\ counted' = IF INSTANCE_ID # "" THEN counted \ GpuSet ELSE counted
    /\ pc' = "exited"
    /\ UNCHANGED << config, handles, PIDS, ptable, i, caller, locals,
                    trapRunning, path, instance, deaths, plane >>

\* ---------------------------------------------- terminate_ec2_instance
\* Variant of lines 19-34 without the fallback of line 28.
terminate_ec2_instance_nofallback ==
    /\ pc = "terminate"
    /\ terminateCalls' = terminateCalls + 1
    /\ IF INSTANCE_ID # ""
       THEN /\ \E ok \in BOOLEAN : awsResult' = IF ok THEN "ok" ELSE "failed"
            /\ UNCHANGED powerOffs
       ELSE /\ UNCHANGED awsResult
            /\ powerOffs' = powerOffs + 1
    /\ pc' = "exited"
    /\ UNCHANGED << config, handles, procs, files, i, caller, locals,
                    trapRunning, signals, path, deaths, plane >>

\* Variant of lines 19-34 whose caller lacks the exit 0: the monitoring
\* loop goes on after the call.
terminate_ec2_instance_noexit ==
    /\ pc = "terminate"
    /\ terminateCalls' = terminateCalls + 1
    /\ IF INSTANCE_ID # ""
       THEN \E ok \in BOOLEAN :
              /\ awsResult' = IF ok THEN "ok" ELSE "failed"
              /\ powerOffs' = IF ok THEN powerOffs ELSE powerOffs + 1
       ELSE /\ UNCHANGED awsResult
            /\ powerOffs' = powerOffs + 1
    /\ pc' = IF terminateCalls < 2 THEN "check_flags" ELSE "exited"
    /\ UNCHANGED << config, handles, procs, files, i, caller, locals,
                    trapRunning, signals, path, deaths, plane >>

\* Lines 19-34, followed by the caller's exit 0 (lines 246, 436).  With an
\* instance id the aws call is made and succeeds or fails; sudo shutdown
\* -h now runs when it failed or when there is no instance id.
terminate_ec2_instance ==
    /\ pc = "terminate"
    /\ terminateCalls' = terminateCalls + 1
    /\ IF INSTANCE_ID # ""
       THEN \E ok \in BOOLEAN :
              /\ awsResult' = IF ok THEN "ok" ELSE "failed"
              /\ powerOffs' = IF ok THEN powerOffs ELSE powerOffs + 1
       ELSE /\ UNCHANGED awsResult
            /\ powerOffs' = powerOffs + 1
    /\ pc' = "exited"
    /\ UNCHANGED << config, handles, procs, files, i, caller, locals,
                    trapRunning, signals, path, deaths, plane >>

\* --------------------------------------------------------- signal trap
\* Variant of line 255 whose handler is the instance teardown when
\* --shutdown_machine was given.
trap_signal_instance ==
    /\ pc # "exited"
    /\ ~trapRunning
    /\ trapRunning' = TRUE
    /\ pc' = IF SHUTDOWN_MACHINE_FLAG THEN "ms_term" ELSE "ca_term"
    /\ i' = 1
    /\ attempt' = 1
    /\ tunnel_url' = ""
    /\ UNCHANGED << config, handles, procs, files, caller, signals, path,
                    instance, deaths, plane >>

\* Variant of line 255 with the signals held back while
\* cleanup_for_machine_shutdown and terminate_ec2_instance run.
trap_signal_masked ==
    /\ pc \notin {"exited", "ms_term", "ms_kill", "terminate"}
    /\ ~trapRunning
    /\ trapRunning' = TRUE
    /\ pc' = "ca_term"
    /\ i' = 1
    /\ attempt' = 1
    /\ tunnel_url' = ""
    /\ UNCHANGED << config, handles, procs, files, caller, signals, path,
                    instance, deaths, plane >>

\* Line 255: trap cleanup_all SIGINT SIGTERM.  The handler runs between two
\* commands of the script; bash does not re-enter a running handler.  The
\* handler ends in exit 0, so the interrupted function is never resumed and
\* its loop index and locals are dead: they are set to their initial values.
trap_signal ==
    /\ pc # "exited"
    /\ ~trapRunning
    /\ trapRunning' = TRUE
    /\ pc' = "ca_term"
    /\ i' = 1
    /\ attempt' = 1
    /\ tunnel_url' = ""
    /\ UNCHANGED << config, handles, procs, files, caller, signals, path,
                    instance, deaths, plane >>

\* --------------------------------------------------------- environment
\* A child process exits or is killed from outside.
ProcessDies ==
    /\ pc # "exited"
    /\ deaths < MaxDeaths
    /\ \E p \in alive :
          /\ alive' = alive \ {p}
          /\ listening' = listening \ {p}
    /\ deaths' = deaths + 1
    /\ UNCHANGED << config, handles, PIDS, ptable, files, pc, i, caller,
                    locals, trapRunning, signals, path, instance, plane >>

\* A backend finishes loading and answers on its port.
BackendListens ==
    /\ \E p \in alive \ listening :
          /\ ptable[p].kind = "comfyui"
          /\ listening' = listening \cup {p}
    /\ UNCHANGED << config, handles, PIDS, ptable, alive, files, pc, i, caller,
                    locals, trapRunning, signals, path, instance, deaths,
                    plane >>

\* A tunnel process prints its public URL into its log.  The log is read
\* only by the URL loop of the launch that spawned the tunnel (lines
\* 180-181), so what a tunnel prints at any other time is left out.
TunnelPrintsUrl ==
    /\ pc = "sw_url"
    /\ \E p \in alive :
          /\ ptable[p].kind = "cloudflared"
          /\ ptable[p].gpu = GPUS[i]
          /\ tunnelLog[ptable[p].gpu] = "empty"
          /\ tunnelLog' = [tunnelLog EXCEPT ![ptable[p].gpu] = "url"]
    /\ UNCHANGED << config, handles, procs, flagFile, counted, pc, i, caller, locals,
                    trapRunning, signals, path, instance, deaths, plane >>

\* A job worker has been idle for its timeout and writes its flag file.
WorkerWritesFlag ==
    /\ \E p \in alive :
          /\ ptable[p].kind = "worker"
          /\ ~flagFile[ptable[p].gpu]
          /\ flagFile' = [flagFile EXCEPT ![ptable[p].gpu] = TRUE]
    /\ UNCHANGED << config, handles, procs, tunnelLog, counted, pc, i, caller, locals,
                    trapRunning, signals, path, instance, deaths, plane >>

Supervisor ==
    \/ clear_flags
    \/ sw_backend
    \/ sw_wait
    \/ sw_tunnel
    \/ sw_url
    \/ sw_worker
    \/ check_worker_shutdown_flags
    \/ health
    \/ cw_comfyui
    \/ cw_comfyui_kill
    \/ cw_worker
    \/ cw_worker_kill
    \/ cw_cloudflared
    \/ cw_cloudflared_kill
    \/ cw_rm
    \/ remaining
    \/ ms_term
    \/ ms_kill
    \/ ca_term
    \/ ca_kill
    \/ terminate_ec2_instance

Environment ==
    \/ ProcessDies
    \/ BackendListens
    \/ TunnelPrintsUrl
    \/ WorkerWritesFlag

Next == Supervisor \/ trap_signal \/ Environment

Spec == Init /\ [][Next]_vars

\* The script always runs its next command; nothing is assumed of the
\* environment or of the operator.
FairSpec == Spec /\ WF_vars(Supervisor)

\* The script with job workers of either payload.
PayloadSpec == PayloadInit /\ [][Next]_vars

\* The script always runs its next command and a backend that has been
\* started and stays alive ends up answering on its port.
NormalSpec == Spec /\ WF_vars(Supervisor) /\ WF_vars(BackendListens)

\* ------------------------------------------------- argument parsing
\* An option value is written as an integer: a value below zero stands for
\* a word that [[ =~ ^[0-9]+$ ]] rejects (the word "-1" is one).
IsNumber(t) == t >= 0

\* The --gpus values tried: absent (<< >>), or a list of words, each a
\* non-number, an available id or the first unavailable id.
ArgGpus ==
    { << >> } \cup UNION { [1..n -> (0 - 1) .. TOTAL_GPUS] : n \in 1..MaxGpus }

\* The --idle_timeout values tried: absent, a non-number, one below and one
\* at the minimum.
ArgTimeouts ==
    { << >>, << 0 - 1 >>, << MIN_IDLE_TIMEOUT - 1 >>, << MIN_IDLE_TIMEOUT >> }

\* The state at the first command of the script: nothing parsed yet.
ParseInit ==
    /\ RwNotRun
    /\ ManagerNotLoaded
    /\ argv \in [gpus : ArgGpus, timeout : ArgTimeouts]
    /\ IDLE_TIMEOUT = DEFAULT_IDLE_TIMEOUT
    /\ exitStatus = 0
    /\ GPUS = << 0 >>
    /\ INSTANCE_ID \in {"", "ec2"}
    /\ SHUTDOWN_MACHINE_FLAG \in BOOLEAN
    /\ flagContent = IF SHUTDOWN_MACHINE_FLAG THEN "SHUTDOWN_MACHINE"
                                              ELSE "SHUTDOWN_PROCESS"
    /\ PIDS = {}
    /\ COMFYUI_PIDS = [g \in GpuIds |-> 0]
    /\ CLOUDFLARED_PIDS = [g \in GpuIds |-> 0]
    /\ WORKER_PIDS = [g \in GpuIds |-> 0]
    /\ ptable = << >>
    /\ alive = {}
    /\ listening = {}
    /\ flagFile \in [GpuIds -> BOOLEAN]
    /\ counted = {}
    /\ tunnelLog = [g \in GpuIds |-> "absent"]
    /\ pc = "parse_args"
    /\ i = 1
    /\ caller = "startup"
    /\ attempt = 1
    /\ tunnel_url = ""
    /\ trapRunning = FALSE
    /\ sigTERM = {}
    /\ sigKILL = {}
    /\ path = "none"
    /\ terminateCalls = 0
    /\ awsResult = "none"
    /\ powerOffs = 0
    /\ deaths = 0
    /\ registered = {}
    /\ graceElapsed = FALSE
    /\ watchdog = "not_started"

\* --gpus with a word that is not a number (lines 293-298).
BadGpuWord == \E k \in 1..Len(argv.gpus) : ~IsNumber(argv.gpus[k])

\* --idle_timeout with a non-number or a number below 60 (line 308).
BadTimeout ==
    /\ Len(argv.timeout) = 1
    /\ ~IsNumber(argv.timeout[1]) \/ argv.timeout[1] < MIN_IDLE_TIMEOUT

\* Lines 282-320: the option loop.  Either bad value ends the script in
\* exit 1; otherwise the values given replace the defaults.
parse_args ==
    /\ pc = "parse_args"
    /\ ~trapRunning
    /\ IF BadGpuWord \/ BadTimeout
       THEN /\ pc' = "exited"
            /\ exitStatus' = 1
            /\ UNCHANGED << GPUS, IDLE_TIMEOUT >>
       ELSE /\ pc' = "validate_gpus"
            /\ GPUS' = IF Len(argv.gpus) > 0 THEN argv.gpus ELSE GPUS
            /\ IDLE_TIMEOUT' = IF Len(argv.timeout) = 1 THEN argv.timeout[1]
                                                        ELSE IDLE_TIMEOUT
            /\ UNCHANGED exitStatus
    /\ argv' = [gpus |-> << >>, timeout |-> << >>]
    /\ UNCHANGED << runWorkers, oboboWorkerManager, INSTANCE_ID, SHUTDOWN_MACHINE_FLAG, flagContent, handles,
                    procs, files, i, caller, locals, trapRunning, signals,
                    path, instance, deaths, plane >>

\* if [ "$gpu" -ge 0 ] && [ "$gpu" -lt "$TOTAL_GPUS" ]
Available(g) == g >= 0 /\ g < TOTAL_GPUS

\* validate_gpus with an unavailable id made fatal instead of skipped.
validate_gpus_fatal ==
    /\ pc = "validate_gpus"
    /\ ~trapRunning
    /\ IF \E k \in 1..Len(GPUS) : ~Available(GPUS[k])
       THEN /\ pc' = "exited"
            /\ exitStatus' = 1
            /\ UNCHANGED GPUS
       ELSE /\ pc' = "clear_flags"
            /\ UNCHANGED << GPUS, exitStatus >>
    /\ UNCHANGED << runWorkers, oboboWorkerManager, argv, IDLE_TIMEOUT, INSTANCE_ID,
                    SHUTDOWN_MACHINE_FLAG, flagContent, handles, procs, files,
                    i, caller, locals, trapRunning, signals, path, instance,
                    deaths, plane >>

\* Lines 322-340: ids that are not on the machine are skipped with a warning;
\* a list left empty becomes (0).
validate_gpus ==
    /\ pc = "validate_gpus"
    /\ ~trapRunning
    /\ LET VALIDATED_GPUS == SelectSeq(GPUS, Available)
       IN  GPUS' = IF Len(VALIDATED_GPUS) = 0 THEN << 0 >> ELSE VALIDATED_GPUS
    /\ pc' = "clear_flags"
    /\ UNCHANGED << runWorkers, oboboWorkerManager, argv, IDLE_TIMEOUT, exitStatus, INSTANCE_ID,
                    SHUTDOWN_MACHINE_FLAG, flagContent, handles, procs, files,
                    i, caller, locals, trapRunning, signals, path, instance,
                    deaths, plane >>

ParseNext == parse_args \/ validate_gpus \/ Next

\* The script from its first command with any option values.
ParseSpec == ParseInit /\ [][ParseNext]_vars

\* ------------------------------------------ the fleet when no work arrives
\* The monitoring loop with job workers that get no work: each one writes
\* its flag file when its idle timeout is over and then exits, restart after
\* restart.  A restart is taken as one step that succeeds (the backend
\* answers, the tunnel prints its URL), and the processes it spawns get the
\* pids of the unit's former processes, which have all exited by then, so
\* the process table stays as the initial launches left it.

\* The last position of gpu id g in GPUS: the launch whose pids the handles
\* of g hold after the launch loop (lines 390-394).
LastLaunchOf(g) ==
    CHOOSE k \in 1..NUM_GPUS :
       GPUS[k] = g /\ \A m \in (k + 1)..NUM_GPUS : GPUS[m] # g

\* The state when the launch loop has ended with every process running and
\* no flag file written: the monitoring loop is about to make its first
\* idle check (line 402).
NoWorkInit ==
    /\ RwNotRun
    /\ ManagerNotLoaded
    /\ argv = [gpus |-> << >>, timeout |-> << >>]
    /\ IDLE_TIMEOUT = DEFAULT_IDLE_TIMEOUT
    /\ exitStatus = 0
    /\ GPUS \in GpuLists
    /\ INSTANCE_ID \in {"", "ec2"}
    /\ SHUTDOWN_MACHINE_FLAG \in BOOLEAN
    /\ flagContent = IF SHUTDOWN_MACHINE_FLAG THEN "SHUTDOWN_MACHINE"
                                              ELSE "SHUTDOWN_PROCESS"
    /\ ptable = [p \in 1..(3 * NUM_GPUS) |->
                   [kind |-> CASE p % 3 = 1 -> "comfyui"
                               [] p % 3 = 2 -> "cloudflared"
                               [] OTHER     -> "worker",
                    gpu  |-> GPUS[((p - 1) \div 3) + 1]]]
    /\ PIDS = 1..(3 * NUM_GPUS)
    /\ alive = PIDS
    /\ listening = { p \in PIDS : p % 3 = 1 }
    /\ COMFYUI_PIDS = [g \in GpuIds |->
          IF g \in GpuSet THEN 3 * LastLaunchOf(g) - 2 ELSE 0]
    /\ CLOUDFLARED_PIDS = [g \in GpuIds |->
          IF g \in GpuSet THEN 3 * LastLaunchOf(g) - 1 ELSE 0]
    /\ WORKER_PIDS = [g \in GpuIds |->
          IF g \in GpuSet THEN 3 * LastLaunchOf(g) ELSE 0]
    /\ flagFile = [g \in GpuIds |-> FALSE]
    /\ counted = {}
    /\ tunnelLog = [g \in GpuIds |-> IF g \in GpuSet THEN "url" ELSE "absent"]
    /\ pc = "check_flags"
    /\ i = 1
    /\ caller = "monitor"
    /\ attempt = 1
    /\ tunnel_url = ""
    /\ trapRunning = FALSE
    /\ sigTERM = {}
    /\ sigKILL = {}
    /\ path = "none"
    /\ terminateCalls = 0
    /\ awsResult = "none"
    /\ powerOffs = 0
    /\ deaths = 0
    /\ registered = {}
    /\ graceElapsed = FALSE
    /\ watchdog = "not_started"

\* Lines 419-420 as one step: cleanup_worker (lines 118-144) kills what is
\* left of the unit and deletes its tunnel log and flag file, start_worker
\* (lines 146-220) brings the unit's three processes up again and records
\* them; the health loop goes on with the next unit.
restart_unit ==
    /\ pc = "cw_comfyui"
    /\ caller = "monitor"
    /\ LET g == GPUS[i]
       IN  /\ flagFile' = [flagFile EXCEPT ![g] = FALSE]
           /\ counted' = counted \ {g}
           /\ tunnelLog' = [tunnelLog EXCEPT ![g] = "url"]
           /\ alive' = alive \cup HandlesOf(g)
           /\ listening' = listening \cup {COMFYUI_PIDS[g]}
    /\ IF i < NUM_GPUS
       THEN pc' = "health" /\ i' = i + 1
       ELSE pc' = "remaining" /\ UNCHANGED i
    /\ UNCHANGED << config, handles, PIDS, ptable, caller, locals,
                    trapRunning, signals, path, instance, deaths, plane >>

\* The job worker recorded for gpu id g, idle for its timeout, writes its
\* flag file.
WorkerIdles(g) ==
    /\ WORKER_PIDS[g] \in alive
    /\ ~flagFile[g]
    /\ flagFile' = [flagFile EXCEPT ![g] = TRUE]
    /\ UNCHANGED << config, handles, procs, tunnelLog, counted, pc, i, caller,
                    locals, trapRunning, signals, path, instance, deaths,
                    plane >>

\* The job worker recorded for gpu id g exits, its flag file written.
WorkerExits(g) ==
    /\ pc # "exited"
    /\ WORKER_PIDS[g] \in alive
    /\ flagFile[g]
    /\ alive' = alive \ {WORKER_PIDS[g]}
    /\ UNCHANGED << config, handles, PIDS, ptable, listening, files, pc, i,
                    caller, locals, trapRunning, signals, path, instance,
                    deaths, plane >>

NoWorkSupervisor ==
    \/ check_worker_shutdown_flags
    \/ health
    \/ restart_unit
    \/ remaining
    \/ ms_term
    \/ ms_kill
    \/ ca_term
    \/ ca_kill
    \/ terminate_ec2_instance

NoWorkNext ==
    \/ NoWorkSupervisor
    \/ trap_signal
    \/ \E g \in GpuIds : WorkerIdles(g) \/ WorkerExits(g)

\* The script always runs its next command, and every job worker that runs
\* ends up writing its flag file and then exiting.
NoWorkSpec ==
    /\ NoWorkInit
    /\ [][NoWorkNext]_vars
    /\ WF_vars(NoWorkSupervisor)
    /\ \A g \in GpuIds : WF_vars(WorkerIdles(g)) /\ WF_vars(WorkerExits(g))

\* ---------------------------------- run_workers.sh: argument parsing
\* Most options on a command line tried.
MaxArgs == 3

\* IDLE_TIMEOUT=9999...9 (73 digits, line 178), passed on as a word and
\* never computed with when NO_SHUTDOWN is true: any number above every
\* --idle_timeout value tried stands for it.
NO_SHUTDOWN_TIMEOUT == 2147483647

\* An --idle_timeout value accepted by line 170 and different from the
\* minimum and from the default.
LONG_IDLE_TIMEOUT == 600

\* The options tried: --no_shutdown, --shutdown_machine, and --idle_timeout
\* with a non-number, a number below the minimum, the minimum, or more.
RwOptions ==
    { [opt |-> "--no_shutdown", val |-> 0],
      [opt |-> "--shutdown_machine", val |-> 0] }
    \cup { [opt |-> "--idle_timeout", val |-> v] :
             v \in { 0 - 1, MIN_IDLE_TIMEOUT - 1, MIN_IDLE_TIMEOUT,
                     LONG_IDLE_TIMEOUT } }

\* The settings run_workers.sh holds (lines 138-140) and whether it has
\* ended in exit 1.
RwConfig(timeout, noShutdown, machine, failed) ==
    [IDLE_TIMEOUT |-> timeout, NO_SHUTDOWN |-> noShutdown,
     SHUTDOWN_MACHINE_FLAG |-> machine, failed |-> failed]

\* Lines 144-186: one round of the option loop on option o.
RwStep(c, o) ==
    IF c.failed THEN c
    ELSE CASE o.opt = "--shutdown_machine" ->
                [c EXCEPT !.SHUTDOWN_MACHINE_FLAG = TRUE]
           [] o.opt = "--idle_timeout" ->
                [c EXCEPT !.IDLE_TIMEOUT = o.val,
                          !.failed = ~IsNumber(o.val) \/ o.val < MIN_IDLE_TIMEOUT]
           [] o.opt = "--no_shutdown" ->
                [c EXCEPT !.NO_SHUTDOWN = TRUE,
                          !.IDLE_TIMEOUT = NO_SHUTDOWN_TIMEOUT]

\* Lines 143-187: the option loop on the options args, in their order.
RECURSIVE RwParse(_, _)
RwParse(c, args) ==
    IF Len(args) = 0 THEN c ELSE RwParse(RwStep(c, Head(args)), Tail(args))

\* run_workers.sh at its first command, the supervisor not running.
RwInit ==
    /\ Parsed
    /\ ManagerNotLoaded
    /\ GPUS = << 0 >>
    /\ INSTANCE_ID = ""
    /\ ~SHUTDOWN_MACHINE_FLAG
    /\ flagContent = "SHUTDOWN_PROCESS"
    /\ \A g \in GpuIds : ~flagFile[g]
    /\ rwArgs \in UNION { [1..n -> RwOptions] : n \in 0..MaxArgs }
    /\ rwIdleTimeout = DEFAULT_IDLE_TIMEOUT
    /\ rwNoShutdown = FALSE
    /\ rwShutdownMachine = FALSE
    /\ rwPc = "parse"

\* Everything of the supervisor (part_001), which run_workers.sh leaves alone.
part001 == << argv, IDLE_TIMEOUT, exitStatus, GPUS, INSTANCE_ID,
              SHUTDOWN_MACHINE_FLAG, flagContent, handles, procs, files, pc,
              i, caller, locals, trapRunning, signals, path, instance, deaths,
              plane >>

\* Lines 143-187: one round of the option loop; exit 1 on a bad value.
rw_option ==
    /\ rwPc = "parse"
    /\ Len(rwArgs) > 0
    /\ LET c == RwStep(RwConfig(rwIdleTimeout, rwNoShutdown,
                                rwShutdownMachine, FALSE), Head(rwArgs))
       IN  /\ rwIdleTimeout' = c.IDLE_TIMEOUT
           /\ rwNoShutdown' = c.NO_SHUTDOWN
           /\ rwShutdownMachine' = c.SHUTDOWN_MACHINE_FLAG
           /\ rwPc' = IF c.failed THEN "exit1" ELSE "parse"
    /\ rwArgs' = Tail(rwArgs)
    /\ UNCHANGED << part001, oboboWorkerManager >>

\* Lines 189-260: no option is left; the settings are displayed and the
\* workers are started with --idle_timeout $IDLE_TIMEOUT.
rw_launch ==
    /\ rwPc = "parse"
    /\ Len(rwArgs) = 0
    /\ rwPc' = "launched"
    /\ UNCHANGED << rwArgs, rwIdleTimeout, rwNoShutdown, rwShutdownMachine,
                    part001, oboboWorkerManager >>

RwNext == rw_option \/ rw_launch

\* run_workers.sh with any options in any order.
RwSpec == RwInit /\ [][RwNext]_vars

\* ----------------------------------------------- registration watchdog
\* Lines 443-472 follow the monitoring loop, a while true without break
\* whose only ways out are exit 0 (lines 79, 246, 436): the script never
\* reaches them, so no action starts the watchdog subshell and watchdog stays
\* "not_started".  To state what the watchdog is for, the control plane and
\* the clock are added as environment steps in a specification of their own.

\* curl .../v1/worker/<id> starts answering 200 for a live worker's id
\* (lines 455-456) while the grace window is open.
WorkerRegisters ==
    /\ ~graceElapsed
    /\ \E p \in alive :
          /\ ptable[p].kind = "worker"
          /\ ptable[p].gpu \notin registered
          /\ registered' = registered \cup {ptable[p].gpu}
    /\ UNCHANGED << config, handles, procs, files, pc, i, caller, locals,
                    trapRunning, signals, path, instance, deaths,
                    graceElapsed, watchdog >>

\* GRACE_SECONDS (line 446) have passed since the workers were started.
GraceWindowElapses ==
    /\ caller = "monitor"
    /\ ~graceElapsed
    /\ graceElapsed' = TRUE
    /\ UNCHANGED << config, handles, procs, files, pc, i, caller, locals,
                    trapRunning, signals, path, instance, deaths, registered,
                    watchdog >>

\* --shutdown_machine given (line 444) with an instance id.
WatchdogInit == Init /\ SHUTDOWN_MACHINE_FLAG /\ INSTANCE_ID # ""

WatchdogNext ==
    \/ Next
    \/ WorkerRegisters
    \/ GraceWindowElapses

WatchdogSpec == WatchdogInit /\ [][WatchdogNext]_vars /\ WF_vars(Supervisor)

TypeOK ==
    /\ GPUS \in GpuLists
    /\ PIDS \subseteq 1..Len(ptable)
    /\ alive \subseteq PIDS
    /\ listening \subseteq alive
    /\ attempt \in 1..TUNNEL_ATTEMPTS
    /\ i \in 1..NUM_GPUS
    /\ deaths \in 0..MaxDeaths
    /\ counted \subseteq { g \in GpuIds : flagFile[g] }

\* ====================================================== properties

\* At least one unit with a worker entry has no idle-signal file.
StrictSubsetIdle ==
    \E k \in 1..NUM_GPUS : WORKER_PIDS[GPUS[k]] # 0 /\ ~flagFile[GPUS[k]]

\* C1: an idle check made while some active unit has no idle-signal file
\* decides no shutdown: it goes on to the health loop, signals no process,
\* makes no instance-termination call and does not exit.
C1_NoDecisionOnPartialIdle ==
    [][ (check_worker_shutdown_flags /\ StrictSubsetIdle) =>
          /\ pc' = "health"
          /\ path' = path
          /\ alive' = alive
          /\ sigTERM' = sigTERM
          /\ sigKILL' = sigKILL
          /\ terminateCalls' = terminateCalls
          /\ powerOffs' = powerOffs ]_vars

\* A pass in which one active unit is flagged, another is not, and the
\* supervisor has gone on to the health loop.
C1_Witness ==
    /\ pc = "health"
    /\ i = 1
    /\ path = "none"
    /\ ~trapRunning
    /\ StrictSubsetIdle
    /\ \E k \in 1..NUM_GPUS : WORKER_PIDS[GPUS[k]] # 0 /\ flagFile[GPUS[k]]

\* C2: when the idle check finds every active unit flagged and
\* --shutdown_machine was not given, the supervisor enters cleanup_all, stays
\* in it until it exits, does exit, has then no tracked process left alive,
\* and never calls terminate_ec2_instance, aws or shutdown.
C2_TerminateLocal ==
    /\ [][ (check_worker_shutdown_flags /\ FleetIdle /\ ~SHUTDOWN_MACHINE_FLAG) =>
             (pc' = "ca_term" /\ path' = "idle_local") ]_vars
    /\ [](path = "idle_local" =>
             /\ pc \in {"ca_term", "ca_kill", "exited"}
             /\ terminateCalls = 0
             /\ awsResult = "none"
             /\ powerOffs = 0
             /\ (pc = "exited" => PIDS \cap alive = {}))
    /\ (path = "idle_local" ~> pc = "exited")

\* The local-only path has run to its exit after a fleet-idle decision over
\* two distinct units.
C2_Witness ==
    /\ pc = "exited"
    /\ path = "idle_local"
    /\ ~trapRunning
    /\ Cardinality(GpuSet) = 2
    /\ Cardinality(PIDS) >= 6
    /\ alive = {}
    /\ terminateCalls = 0

\* C3 as stated: an execution that decided TERMINATE_INSTANCE in the idle
\* check has called terminate_ec2_instance exactly once when it exits.
C3_Original ==
    (pc = "exited" /\ path = "idle_instance") => terminateCalls = 1

\* C3 amended: when the idle check finds every active unit flagged and
\* --shutdown_machine was given, the supervisor enters
\* cleanup_for_machine_shutdown; terminate_ec2_instance is called at most
\* once and only after every tracked process is dead; the supervisor exits;
\* at exit the call has been made exactly once, unless the SIGINT/SIGTERM
\* trap ran before it, in which case it has not been made.
C3_TerminateInstanceOnce ==
    /\ [][ (check_worker_shutdown_flags /\ FleetIdle /\ SHUTDOWN_MACHINE_FLAG) =>
             (pc' = "ms_term" /\ path' = "idle_instance") ]_vars
    /\ [](path = "idle_instance" =>
             /\ terminateCalls <= 1
             /\ (pc = "terminate" => PIDS \cap alive = {})
             /\ (terminateCalls = 1 => pc = "exited" /\ PIDS \cap alive = {})
             /\ (pc = "exited" =>
                   terminateCalls = IF trapRunning THEN 0 ELSE 1))
    /\ (path = "idle_instance" ~> pc = "exited")

\* The instance path has run to its exit with one call.
C3_Witness ==
    /\ pc = "exited"
    /\ path = "idle_instance"
    /\ ~trapRunning
    /\ terminateCalls = 1
    /\ Cardinality(GpuSet) = 2

\* A step of the restart of the unit GPUS[i]: cleanup_worker followed by
\* start_worker, called from the health loop (lines 419-420).
RestartStep ==
    /\ caller = "monitor"
    /\ \/ cw_comfyui \/ cw_comfyui_kill
       \/ cw_worker \/ cw_worker_kill
       \/ cw_cloudflared \/ cw_cloudflared_kill
       \/ cw_rm
       \/ sw_backend \/ sw_wait \/ sw_tunnel \/ sw_url \/ sw_worker

\* C4: no step of a restart of unit k changes the backend, tunnel or worker
\* handle of another unit, and no process spawned for another unit is sent
\* TERM or KILL, or stops existing, in such a step.
C4_RestartLeavesOthers ==
    [][ RestartStep =>
          /\ \A g \in GpuIds \ {GPUS[i]} :
                /\ COMFYUI_PIDS'[g] = COMFYUI_PIDS[g]
                /\ CLOUDFLARED_PIDS'[g] = CLOUDFLARED_PIDS[g]
                /\ WORKER_PIDS'[g] = WORKER_PIDS[g]
          /\ \A p \in 1..Len(ptable) :
                ptable[p].gpu # GPUS[i] =>
                   /\ (p \in alive') = (p \in alive)
                   /\ (p \in sigTERM') = (p \in sigTERM)
                   /\ (p \in sigKILL') = (p \in sigKILL) ]_vars

\* One unit has been restarted (its handles are the three newest pids) while
\* the other still runs the three processes of the initial launch.
C4_Witness ==
    /\ caller = "monitor"
    /\ pc \in {"health", "remaining", "check_flags"}
    /\ ~trapRunning
    /\ Len(ptable) = 9
    /\ \E g, h \in GpuSet :
          /\ g # h
          /\ HandlesOf(g) = {7, 8, 9}
          /\ HandlesOf(h) \subseteq 1..6
          /\ Cardinality(HandlesOf(h)) = 3
          /\ HandlesOf(h) \subseteq alive

\* The three handles of g are the three processes of one launch and the
\* worker among them exists.
Relaunched(g) ==
    /\ WORKER_PIDS[g] \in alive
    /\ COMFYUI_PIDS[g] = WORKER_PIDS[g] - 2
    /\ CLOUDFLARED_PIDS[g] = WORKER_PIDS[g] - 1

\* The worker handle of g is set and its process no longer exists.
WorkerDead(g) == WORKER_PIDS[g] # 0 /\ WORKER_PIDS[g] \notin alive

\* The supervisor is monitoring (no shutdown decided, no signal taken) and
\* the worker process of g is dead.
WorkerKilled(g) ==
    /\ caller = "monitor"
    /\ path = "none"
    /\ ~trapRunning
    /\ WorkerDead(g)

\* C5 as stated: once the worker process of a unit is dead during
\* monitoring, the unit is relaunched (or the fleet-idle rule applies).
C5_Original ==
    \A g \in GpuIds :
       WorkerKilled(g) ~>
          (Relaunched(g) \/ path \in {"idle_local", "idle_instance"})

\* C5 amended: the health loop tears a unit down as soon as it examines it
\* and finds one of its processes dead, before it examines the next unit;
\* the launch that follows records as the unit's handles the three processes
\* it spawns, none of them known before; and a unit whose worker process is
\* dead is relaunched, unless the supervisor shuts down (fleet idle, no active
\* unit, SIGINT/SIGTERM) or a launch waits for ever for its backend to answer.
C5_RestartWithinPass ==
    /\ [][ (health /\ died(GPUS[i])) => (pc' = "cw_comfyui" /\ i' = i) ]_vars
    /\ [][ sw_worker =>
             LET g == GPUS[i]
                 n == Len(ptable')
             IN  /\ COMFYUI_PIDS'[g] = n - 2
                 /\ CLOUDFLARED_PIDS'[g] = n - 1
                 /\ WORKER_PIDS'[g] = n
                 /\ {n - 2, n - 1, n} \cap PIDS \subseteq {n - 2, n - 1}
                 /\ n \in alive' ]_vars
    /\ [][ (pc = "cw_rm" /\ pc' = "sw_backend") =>
             {COMFYUI_PIDS'[GPUS[i]], CLOUDFLARED_PIDS'[GPUS[i]], WORKER_PIDS'[GPUS[i]]} = {0} ]_vars
    /\ \A g \in GpuIds :
          [](WorkerKilled(g) =>
                \/ <>(Relaunched(g) \/ path # "none" \/ trapRunning)
                \/ <>[](pc = "sw_wait"))

\* A unit whose worker died has been relaunched: it runs three processes
\* spawned after the initial launch of two units, all of whose own processes
\* but the dead worker were alive when it was torn down.
C5_Witness ==
    /\ caller = "monitor"
    /\ pc \in {"health", "remaining"}
    /\ ~trapRunning
    /\ deaths = 1
    /\ Len(ptable) = 9
    /\ \E g \in GpuSet :
          /\ Relaunched(g)
          /\ WORKER_PIDS[g] = 9
          /\ \E w \in 1..6 : ptable[w].kind = "worker" /\ ptable[w].gpu = g

\* C6: no step of a restart of unit k deletes, creates or writes the
\* idle-signal file or the tunnel log of another unit.
C6_RestartLeavesOtherFiles ==
    [][ RestartStep =>
          \A g \in GpuIds \ {GPUS[i]} :
             /\ flagFile'[g] = flagFile[g]
             /\ tunnelLog'[g] = tunnelLog[g] ]_vars

\* A restart has removed its own unit's files while another unit's
\* idle-signal file and tunnel log are in place.
C6_Witness ==
    /\ caller = "monitor"
    /\ pc = "sw_backend"
    /\ ~trapRunning
    /\ tunnelLog[GPUS[i]] = "absent"
    /\ ~flagFile[GPUS[i]]
    /\ \E h \in GpuSet \ {GPUS[i]} : flagFile[h] /\ tunnelLog[h] # "absent"

\* A process of the given kind is spawned in this step.
Spawned(kind) ==
    /\ Len(ptable') = Len(ptable) + 1
    /\ ptable'[Len(ptable')].kind = kind

\* C7: processes are spawned in rounds of backend, tunnel, worker for one
\* gpu id; the tunnel is spawned by the command that follows the readiness
\* loop, which is left only when the port answers; the worker is spawned by
\* the command that follows the URL loop, which is left only when the URL was
\* found or the attempts are used up, and after this launch's tunnel.
C7_LaunchOrder ==
    /\ [](\A p \in 1..Len(ptable) :
             /\ ptable[p].kind = CASE p % 3 = 1 -> "comfyui"
                                   [] p % 3 = 2 -> "cloudflared"
                                   [] OTHER     -> "worker"
             /\ (p % 3 # 1 => ptable[p].gpu = ptable[p - 1].gpu))
    /\ [][ Spawned("comfyui") => pc = "sw_backend" ]_vars
    /\ [][ Spawned("cloudflared") =>
             /\ pc = "sw_tunnel"
             /\ COMFYUI_PIDS[GPUS[i]] = Len(ptable) ]_vars
    /\ [][ (pc' = "sw_tunnel" /\ pc # "sw_tunnel") =>
             (pc = "sw_wait" /\ PortResponds(GPUS[i])) ]_vars
    /\ [][ Spawned("worker") =>
             /\ pc = "sw_worker"
             /\ CLOUDFLARED_PIDS[GPUS[i]] = Len(ptable) ]_vars
    /\ [][ (pc' = "sw_worker" /\ pc # "sw_worker") =>
             /\ pc = "sw_url"
             /\ tunnelLog[GPUS[i]] = "url" \/ attempt = TUNNEL_ATTEMPTS ]_vars

\* Two units have been launched, one after its URL was found and one after
\* the attempts ran out.
C7_Witness ==
    /\ pc = "check_flags"
    /\ caller = "monitor"
    /\ ~trapRunning
    /\ Len(ptable) = 6
    /\ \E g, h \in GpuSet : tunnelLog[g] = "url" /\ tunnelLog[h] = "empty"

\* C8: with --shutdown_machine, once the grace window has passed without
\* every configured worker registered, terminate_ec2_instance is called once
\* by the watchdog, whatever the monitoring loop is doing.  (An execution
\* that has exited by another path, or that is held in the readiness wait of
\* a launch, is not held against the watchdog.)
C8_WatchdogTerminates ==
    (graceElapsed /\ registered # GpuSet) ~>
       (terminateCalls = 1 \/ pc = "exited" \/ pc = "sw_wait")

\* C9: once every configured worker is registered within the grace window,
\* the watchdog subshell exits (and nothing is signalled or terminated by
\* it).  (An execution in which the supervisor has exited, or is held in
\* the readiness wait of a launch, is not held against the watchdog.)
C9_WatchdogExitsClean ==
    (~graceElapsed /\ registered = GpuSet) ~>
       (watchdog = "exited" \/ pc = "exited" \/ pc = "sw_wait")

BackendNeverReady ==
    /\ pc = "sw_wait"
    /\ PidsOf("comfyui", GPUS[i]) \cap alive = {}

\* C11 as stated: a launch whose backend never becomes ready does not stop
\* the supervisor, which can go on towards the next health-poll cycle.
C11_Original == BackendNeverReady => ENABLED Supervisor

\* C11 amended: while the backend of the launch in progress does not answer,
\* the supervisor stays in the readiness loop of that launch; it runs no
\* health poll and retries nothing (no handle changes, no process is spawned
\* or signalled), and only SIGINT/SIGTERM takes it out of the loop.
C11_WaitBlocksSupervisor ==
    /\ [](pc = "sw_wait" /\ ~PortResponds(GPUS[i]) => ~ENABLED Supervisor)
    /\ [][ (pc = "sw_wait" /\ ~PortResponds(GPUS[i])) =>
             /\ pc' = "sw_wait" \/ (pc' = "ca_term" /\ trapRunning')
             /\ UNCHANGED << handles, PIDS, ptable, signals >> ]_vars
    /\ [][ (pc = "sw_wait" /\ pc' = "sw_tunnel") => PortResponds(GPUS[i]) ]_vars

\* The backend of the second unit's launch has died before answering while
\* the first unit is running.
C11_Witness ==
    /\ BackendNeverReady
    /\ ~trapRunning
    /\ i = 2
    /\ COMFYUI_PIDS[GPUS[i]] = 4
    /\ WORKER_PIDS[GPUS[1]] \in alive

\* Every configured unit has a worker pid entry, an idle-signal file, and a
\* worker process that no longer exists.
AllFlaggedDead ==
    \A k \in 1..NUM_GPUS :
       /\ WORKER_PIDS[GPUS[k]] # 0
       /\ WORKER_PIDS[GPUS[k]] \notin alive
       /\ flagFile[GPUS[k]]

\* C12 as stated: units whose worker process is dead are not counted by the
\* idle check, so when every unit is flagged with a dead worker the check
\* decides no shutdown and the health loop (which restarts them) follows.
C12_Original ==
    [][ (check_worker_shutdown_flags /\ AllFlaggedDead) => pc' = "health" ]_vars

\* C12 amended: the idle check counts a unit as active when its worker pid
\* entry is set, whether or not that process exists.  Its decision is a
\* function of the pid entries and the idle-signal files alone, and when
\* every unit is flagged with a dead worker it starts the fleet-wide
\* teardown (with or without instance termination) instead of the health
\* loop: the units are shut down, not restarted.
C12_ActiveIsPidEntry ==
    /\ [][ check_worker_shutdown_flags =>
             ( pc' \in {"ms_term", "ca_term"} <=>
                 /\ \E k \in 1..NUM_GPUS : WORKER_PIDS[GPUS[k]] # 0
                 /\ \A k \in 1..NUM_GPUS :
                       WORKER_PIDS[GPUS[k]] # 0 => flagFile[GPUS[k]] ) ]_vars
    /\ [][ (check_worker_shutdown_flags /\ AllFlaggedDead) =>
             /\ pc' = IF SHUTDOWN_MACHINE_FLAG THEN "ms_term" ELSE "ca_term"
             /\ path' \in {"idle_local", "idle_instance"}
             /\ UNCHANGED << handles, PIDS, ptable >> ]_vars

\* The idle check has just decided a shutdown of a fleet whose every worker
\* process was already dead.
C12_Witness ==
    /\ pc \in {"ms_term", "ca_term"}
    /\ path \in {"idle_local", "idle_instance"}
    /\ ~trapRunning
    /\ AllFlaggedDead

\* During monitoring, with --shutdown_machine, no unit has a worker pid
\* entry and no signal has been taken.
ZeroActive ==
    /\ caller = "monitor"
    /\ ~trapRunning
    /\ SHUTDOWN_MACHINE_FLAG
    /\ remaining_active = 0

FlagPayload(g) == IF flagFile[g] THEN flagContent ELSE ""

\* Some configured unit's idle-signal file carries the machine-level payload.
MachinePayload ==
    \E k \in 1..NUM_GPUS : FlagPayload(GPUS[k]) = "SHUTDOWN_MACHINE"

\* C14 as stated: an idle check that detects fleet idleness while an
\* idle-signal file carries the machine-level payload starts the teardown
\* that ends in instance termination.
C14_Original ==
    [][ (check_worker_shutdown_flags /\ FleetIdle /\ MachinePayload) =>
          (pc' = "ms_term" /\ path' = "idle_instance") ]_vars

\* C14 amended: the script tests the flag files for existence only; on
\* fleet idleness the path is instance termination exactly when
\* --shutdown_machine was given, whatever the payload of the files, so
\* machine-level payloads without --shutdown_machine lead to the local
\* teardown, after which no instance-termination call or power-off is made.
C14_PathByOption ==
    /\ [][ (check_worker_shutdown_flags /\ FleetIdle) =>
             /\ (pc' = "ms_term" /\ path' = "idle_instance") <=> SHUTDOWN_MACHINE_FLAG
             /\ (pc' = "ca_term" /\ path' = "idle_local") <=> ~SHUTDOWN_MACHINE_FLAG ]_vars
    /\ [](MachinePayload /\ path = "idle_local" =>
             ~SHUTDOWN_MACHINE_FLAG /\ terminateCalls = 0 /\ powerOffs = 0)
    /\ [](path = "idle_instance" => SHUTDOWN_MACHINE_FLAG)

\* Fleet idleness has just been detected on files that all carry the
\* machine-level payload, and the local teardown has been chosen.
C14_Witness ==
    /\ pc = "ca_term"
    /\ path = "idle_local"
    /\ ~trapRunning
    /\ \A k \in 1..NUM_GPUS : FlagPayload(GPUS[k]) = "SHUTDOWN_MACHINE"

\* One of the three processes of gpu id g is not alive; a pid that is
\* missing (entry unset) counts as not alive.
NotAlive(g) ==
    \E h \in {COMFYUI_PIDS[g], CLOUDFLARED_PIDS[g], WORKER_PIDS[g]} :
       h = 0 \/ h \notin alive

\* C15: an iteration of the health loop sends its unit to cleanup_worker
\* and start_worker exactly when one of the unit's backend, tunnel and worker
\* processes is not alive, a missing pid counting as not alive; nothing else
\* starts a restart.  (When a unit is examined its three pids are all
\* recorded, so the case of a missing pid does not arise there.)
C15_SelectedIffNotAlive ==
    /\ [][ health => (pc' = "cw_comfyui" <=> NotAlive(GPUS[i])) ]_vars
    /\ [][ (pc' = "cw_comfyui" /\ pc # "cw_comfyui") =>
             (health /\ NotAlive(GPUS[i]) /\ i' = i) ]_vars
    /\ [](pc = "health" =>
             /\ COMFYUI_PIDS[GPUS[i]] # 0
             /\ CLOUDFLARED_PIDS[GPUS[i]] # 0
             /\ WORKER_PIDS[GPUS[i]] # 0)

\* A unit has just been selected because its tunnel process alone is gone.
C15_Witness ==
    /\ pc = "cw_comfyui"
    /\ ~trapRunning
    /\ CLOUDFLARED_PIDS[GPUS[i]] # 0
    /\ CLOUDFLARED_PIDS[GPUS[i]] \notin alive
    /\ COMFYUI_PIDS[GPUS[i]] \in alive
    /\ WORKER_PIDS[GPUS[i]] \in alive
    /\ sigTERM = {}

\* C16: the URL loop makes at most TUNNEL_ATTEMPTS attempts; it is left for
\* the spawning of the job worker, and only for it, when the URL is in the
\* log or the last attempt has failed, with the URL, or the empty string when
\* none was found, as the worker's --tunnel_url; the next command spawns the
\* worker and records it; and, unless SIGINT/SIGTERM ends the supervisor, a
\* launch that has reached the URL loop goes on to spawn its worker.
C16_DiscoveryBounded ==
    /\ [](attempt \in 1..TUNNEL_ATTEMPTS)
    /\ [][ sw_url =>
             /\ pc' \in {"sw_url", "sw_worker"}
             /\ pc' = "sw_worker" <=>
                   (tunnelLog[GPUS[i]] = "url" \/ attempt = TUNNEL_ATTEMPTS)
             /\ pc' = "sw_url" => attempt' = attempt + 1
             /\ pc' = "sw_worker" =>
                   tunnel_url' = IF tunnelLog[GPUS[i]] = "url" THEN "url" ELSE "" ]_vars
    /\ [][ (pc = "sw_worker" /\ pc' # "sw_worker") =>
             \/ trap_signal
             \/ /\ Spawned("worker")
                /\ WORKER_PIDS'[GPUS[i]] = Len(ptable')
                /\ Len(ptable') \in alive' ]_vars
    /\ (pc = "sw_url" ~> (pc = "sw_worker" \/ trapRunning))
    /\ (pc = "sw_worker" ~> pc # "sw_worker")

\* Every unit has been launched with an empty tunnel URL: no tunnel printed
\* one during the attempts.
C16_Witness ==
    /\ pc = "check_flags"
    /\ ~trapRunning
    /\ NUM_GPUS = 2
    /\ \A g \in GpuSet : tunnelLog[g] = "empty" /\ WORKER_PIDS[g] \in alive

\* C17: when start_worker returns for gpu id g, the backend, tunnel and
\* worker pids recorded for g are set, are the three newest pids in that
\* order, were spawned for g as a backend, a tunnel and a worker, and are
\* tracked in PIDS.
C17_HandlesAreSpawned ==
    [][ sw_worker =>
          LET g == GPUS[i]
              n == Len(ptable')
          IN  /\ n >= 3
              /\ << COMFYUI_PIDS'[g], CLOUDFLARED_PIDS'[g], WORKER_PIDS'[g] >>
                    = << n - 2, n - 1, n >>
              /\ << ptable'[n - 2], ptable'[n - 1], ptable'[n] >>
                    = << [kind |-> "comfyui", gpu |-> g],
                         [kind |-> "cloudflared", gpu |-> g],
                         [kind |-> "worker", gpu |-> g] >>
              /\ {n - 2, n - 1, n} \subseteq PIDS' ]_vars

\* The initial launch of the second of two units has returned: each unit's
\* handles are the three pids of its own launch.
C17_Witness ==
    /\ pc = "check_flags"
    /\ caller = "monitor"
    /\ ~trapRunning
    /\ NUM_GPUS = 2
    /\ Len(ptable) = 6
    /\ GPUS[1] # GPUS[2]
    /\ HandlesOf(GPUS[1]) = {1, 2, 3}
    /\ HandlesOf(GPUS[2]) = {4, 5, 6}

\* C18: when a launch spawns a process for gpu id g, no idle-signal file
\* for g exists: whatever an earlier incarnation wrote has been deleted, at
\* startup (lines 382-388) or by cleanup_worker (line 139), and nothing has
\* written one since.
C18_NoStaleFlagAtSpawn ==
    [][ (sw_backend \/ sw_tunnel \/ sw_worker) => ~flagFile[GPUS[i]] ]_vars

\* C19 as stated, for the idle-signal files: when the supervisor has exited
\* through the signal handler, no configured unit has an idle-signal file.
C19_Original ==
    (trapRunning /\ pc = "exited") => \A g \in GpuSet : ~flagFile[g]

\* C19 amended: SIGINT/SIGTERM is taken at every command of the script that
\* is not already in the handler, with or without --shutdown_machine; the
\* handler is cleanup_all and nothing else: it makes no instance-termination
\* call and no power-off, and it ends in exit; at that exit no tracked
\* process is alive and no tunnel log is left, and no idle-signal file of a
\* configured unit is left when INSTANCE_ID is non-empty (with an empty
\* INSTANCE_ID cleanup_all deletes no idle-signal file).
C19_SignalIsLocalTeardown ==
    /\ [](pc # "exited" /\ ~trapRunning => ENABLED trap_signal)
    /\ [][ trap_signal => (pc' = "ca_term" /\ trapRunning') ]_vars
    /\ [](trapRunning => pc \in {"ca_term", "ca_kill", "exited"})
    /\ [][ trapRunning' => UNCHANGED instance ]_vars
    /\ [](trapRunning /\ pc = "exited" =>
             /\ PIDS \cap alive = {}
             /\ \A g \in GpuIds : tunnelLog[g] = "absent"
             /\ INSTANCE_ID # "" => \A g \in GpuSet : ~flagFile[g])
    /\ (trapRunning ~> pc = "exited")

\* A signal taken during a restart, with --shutdown_machine and an empty
\* INSTANCE_ID, has ended the supervisor: every process is gone, no
\* termination call was made, and an idle-signal file is still there.
C19_Witness ==
    /\ trapRunning
    /\ pc = "exited"
    /\ SHUTDOWN_MACHINE_FLAG
    /\ INSTANCE_ID = ""
    /\ Len(ptable) > 3 * NUM_GPUS
    /\ alive = {}
    /\ terminateCalls = 0
    /\ \E g \in GpuSet : flagFile[g]

\* C20 as stated, for the idle-signal files: when the instance teardown is
\* over and instance termination is called, no configured unit has an
\* idle-signal file.
C20_Original ==
    (pc = "terminate" \/ terminateCalls = 1) => \A g \in GpuSet : ~flagFile[g]

\* C20 amended: when cleanup_for_machine_shutdown is over and
\* terminate_ec2_instance is about to be called, no tracked process is alive,
\* every process sent KILL had been sent TERM before the grace period, and no
\* tunnel log is left; but the teardown and the termination call delete no
\* idle-signal file, so after fleet idleness every configured unit's
\* idle-signal file is still in place when termination is called.
C20_InstanceTeardown ==
    /\ [](pc = "terminate" =>
             /\ PIDS \cap alive = {}
             /\ sigKILL \subseteq sigTERM
             /\ \A g \in GpuIds : tunnelLog[g] = "absent")
    /\ [][ (ms_term \/ ms_kill \/ terminate_ec2_instance) => UNCHANGED flagFile ]_vars
    /\ [](path = "idle_instance" /\ ~trapRunning =>
             \A k \in 1..NUM_GPUS : flagFile[GPUS[k]])

\* After fleet idleness of two units the instance termination has been
\* called: every process is gone and both idle-signal files are in place.
C20_Witness ==
    /\ pc = "exited"
    /\ path = "idle_instance"
    /\ ~trapRunning
    /\ terminateCalls = 1
    /\ alive = {}
    /\ Cardinality(GpuSet) = 2
    /\ \A g \in GpuSet : flagFile[g]

\* C21: no step changes GPUS, the list left by validation; every process
\* ever spawned was spawned for a gpu id of that list, and no handle is
\* recorded for any other gpu id.
C21_SlotSetFixed ==
    /\ [][ GPUS' = GPUS ]_vars
    /\ [](\A p \in 1..Len(ptable) : ptable[p].gpu \in GpuSet)
    /\ [](\A g \in GpuIds \ GpuSet : HandlesOf(g) = {})

\* Two units were launched, one of them has been restarted, and the pass
\* is at its end.
C21_Witness ==
    /\ pc = "remaining"
    /\ ~trapRunning
    /\ NUM_GPUS = 2
    /\ Len(ptable) = 9
    /\ Cardinality(GpuSet) = 2

\* The --gpus list names each gpu id once: the list is a set of slots.
DistinctGpus == Cardinality(GpuSet) = NUM_GPUS

\* Every configured unit has a worker process that is alive.
AllActive == \A g \in GpuSet : WORKER_PIDS[g] \in alive

\* C22: the initial launch ends with three processes per element of GPUS
\* and, when the list names each gpu id once, with one backend, one tunnel
\* and one worker spawned and recorded for each gpu id of the list; and
\* if every backend ends up answering, no process dies and no signal is
\* taken, the supervisor reaches monitoring with a live worker for every
\* configured unit.
C22_AllUnitsStart ==
    /\ [][ (caller = "startup" /\ caller' = "monitor") =>
             /\ Len(ptable') = 3 * NUM_GPUS
             /\ DistinctGpus =>
                   \A g \in GpuSet :
                      /\ Cardinality(PidsOf("comfyui", g)') = 1
                      /\ Cardinality(PidsOf("cloudflared", g)') = 1
                      /\ Cardinality(PidsOf("worker", g)') = 1
                      /\ HandlesOf(g)' = PidsOf("comfyui", g)' \cup
                            PidsOf("cloudflared", g)' \cup PidsOf("worker", g)' ]_vars
    /\ [](caller = "startup" => Len(ptable) < 3 * NUM_GPUS)
    /\ <>(deaths > 0 \/ trapRunning \/ (caller = "monitor" /\ AllActive))

\* Under normal conditions two units on two gpu ids have been started and
\* monitoring begins with both workers alive.
C22_Witness ==
    /\ caller = "monitor"
    /\ pc = "check_flags"
    /\ deaths = 0
    /\ ~trapRunning
    /\ DistinctGpus
    /\ NUM_GPUS = 2
    /\ Len(ptable) = 6
    /\ AllActive

\* ------------------------------------------------------------------ C23
\* (C23) Every configuration error is fatal at startup.  As claimed: the
\* validation of a list that names an id the machine does not have ends the
\* script in exit 1.
C23_Original ==
    [][ (pc = "validate_gpus" /\ pc' # "validate_gpus" /\ ~trapRunning'
           /\ \E k \in 1..Len(GPUS) : ~Available(GPUS[k]))
        => (pc' = "exited" /\ exitStatus' = 1) ]_vars

\* (C23) As the script has it: a --gpus word that is not a number and an
\* --idle_timeout that is not a number or is below 60 end the script in
\* exit 1 with no process spawned, and nothing else does; an id the machine
\* does not have is dropped from the list, (0) is used when none is left,
\* and the script goes on to its launches with every id available.
C23_ConfigErrors ==
    /\ [][ (pc = "parse_args" /\ pc' # "parse_args" /\ ~trapRunning')
           => /\ (pc' = "exited" /\ exitStatus' = 1) <=> (BadGpuWord \/ BadTimeout)
              /\ (~BadGpuWord /\ ~BadTimeout) => pc' = "validate_gpus" ]_vars
    /\ [][ (pc = "validate_gpus" /\ pc' # "validate_gpus" /\ ~trapRunning')
           => /\ pc' = "clear_flags"
              /\ exitStatus' = 0
              /\ GPUS' = IF \E k \in 1..Len(GPUS) : Available(GPUS[k])
                         THEN SelectSeq(GPUS, Available)
                         ELSE << 0 >> ]_vars
    /\ [](exitStatus = 1 => (pc = "exited" /\ Len(ptable) = 0))
    /\ [](Len(ptable) > 0 =>
            /\ \A k \in 1..Len(GPUS) : Available(GPUS[k])
            /\ IDLE_TIMEOUT >= MIN_IDLE_TIMEOUT)

\* The list holds an id the machine does not have and an id it has, the idle
\* timeout given was accepted, and validation is about to run.
C23_Witness ==
    /\ pc = "validate_gpus"
    /\ ~trapRunning
    /\ IDLE_TIMEOUT = MIN_IDLE_TIMEOUT
    /\ \E k \in 1..Len(GPUS) : ~Available(GPUS[k])
    /\ \E k \in 1..Len(GPUS) : Available(GPUS[k])

\* ------------------------------------------------------------------ C24
\* start_worker spawns three processes per call and pids are handed out in
\* order, so pids 3n+1..3n+3 are the n-th call's incarnation.
Incarnation(p) == (p - 1) \div 3

\* (C24) Processes of two incarnations of one gpu id never run at the same
\* time, and a relaunch of gpu id g starts (cleanup_worker has returned and
\* start_worker is at its first command) only when every process ever
\* spawned for g is dead, g's idle-signal file and tunnel log are deleted
\* and g's handles are cleared.
C24_NoOverlap ==
    /\ [](\A p, q \in alive :
            ptable[p].gpu = ptable[q].gpu => Incarnation(p) = Incarnation(q))
    /\ []((pc = "sw_backend" /\ caller = "monitor" /\ ~trapRunning) =>
            LET g == GPUS[i]
            IN  /\ \A p \in alive : ptable[p].gpu # g
                /\ ~flagFile[g]
                /\ tunnelLog[g] = "absent"
                /\ HandlesOf(g) = {})

\* ------------------------------------------------------------------ C25
\* (C25) An idle-signal file of a worker that has exited by itself (the
\* restart found it dead and sent it no signal), when deleted by that
\* restart of the monitoring loop, has been seen by an idle check since it
\* was written: check_worker_shutdown_flags counted it.
C25_FlagCountedBeforeDeleted ==
    [][ \A g \in GpuSet :
          (caller = "monitor" /\ ~trapRunning /\ pc = "cw_rm"
             /\ WORKER_PIDS[g] # 0 /\ WORKER_PIDS[g] \notin sigTERM
             /\ flagFile[g] /\ ~flagFile'[g])
          => g \in counted ]_vars

\* ------------------------------------------------------------------ C26
\* start_worker is running for GPUS[i] (lines 146-220), from the startup
\* loop or from a restart.
LaunchInProgress ==
    /\ pc \in {"sw_backend", "sw_wait", "sw_tunnel", "sw_url", "sw_worker"}
    /\ ~trapRunning

\* A recorded handle of gpu id j refers to a process that no longer exists.
DeadIn(j) == \E p \in HandlesOf(j) : p \notin alive

\* The health loop has found gpu id j dead and starts its restart (line 419).
RestartBegins(j) == pc = "cw_comfyui" /\ caller = "monitor" /\ GPUS[i] = j

\* (C26) As claimed: a death in another unit j during the launch of a unit
\* is detected and j's restart begins (unless the supervisor shuts down),
\* whatever becomes of the launch in progress.
C26_Original ==
    \A j \in GpuIds :
       (LaunchInProgress /\ GPUS[i] # j /\ DeadIn(j))
          ~> (RestartBegins(j) \/ trapRunning \/ path # "none")

\* (C26) As the script has it: while start_worker runs for a unit, no other
\* unit is looked at: no idle check and no health test runs, no handle of
\* another unit changes, no signal is sent and nothing is decided; the
\* readiness loop is left only when the port answers.  A death in another
\* unit j is detected, and j's restart begins, only after the launch has
\* returned: never if the launch waits for ever for its backend.
C26_LaunchBlocksSupervision ==
    /\ [][ (LaunchInProgress /\ ~trapRunning') =>
             /\ pc' \in {"sw_backend", "sw_wait", "sw_tunnel", "sw_url",
                         "sw_worker", "check_flags", "health", "remaining"}
             /\ \A j \in GpuIds \ {GPUS[i]} :
                   /\ COMFYUI_PIDS'[j] = COMFYUI_PIDS[j]
                   /\ CLOUDFLARED_PIDS'[j] = CLOUDFLARED_PIDS[j]
                   /\ WORKER_PIDS'[j] = WORKER_PIDS[j]
             /\ UNCHANGED << signals, path, counted >> ]_vars
    /\ [][ (pc = "sw_wait" /\ pc' # "sw_wait" /\ ~trapRunning')
             => PortResponds(GPUS[i]) ]_vars
    /\ [](pc = "sw_wait" /\ ~PortResponds(GPUS[i]) =>
             ~ENABLED check_worker_shutdown_flags /\ ~ENABLED health)
    /\ \A j \in GpuIds :
          []((LaunchInProgress /\ GPUS[i] # j /\ DeadIn(j)) =>
                \/ <>(RestartBegins(j) \/ trapRunning \/ path # "none")
                \/ <>[](pc = "sw_wait"))

\* The second unit's launch waits for its backend while a process of the
\* first unit, launched before, is dead.
C26_Witness ==
    /\ pc = "sw_wait"
    /\ ~trapRunning
    /\ i = 2
    /\ GPUS[1] # GPUS[2]
    /\ DeadIn(GPUS[1])
    /\ COMFYUI_PIDS[GPUS[2]] \in alive

\* ------------------------------------------------------------------ C27
RECURSIVE Reverse(_)
Reverse(s) == IF Len(s) = 0 THEN << >> ELSE Append(Reverse(Tail(s)), Head(s))

\* The settings the options still to be parsed lead to, from the settings
\* held now.
RwOutcome(args) ==
    RwParse(RwConfig(rwIdleTimeout, rwNoShutdown, rwShutdownMachine, FALSE),
            args)

\* (C27) With --no_shutdown given, the workers of run_workers.sh are started
\* with the effectively-infinite idle timeout, and the settings parsed from
\* a command line whose values are all accepted are those parsed from the
\* same options in the opposite order.
C27_NoShutdownOverrides ==
    /\ [](rwPc = "launched" /\ rwNoShutdown
             => rwIdleTimeout = NO_SHUTDOWN_TIMEOUT)
    /\ [](rwPc = "parse" /\ ~RwOutcome(rwArgs).failed
             => RwOutcome(Reverse(rwArgs)) = RwOutcome(rwArgs))

\* ------------------------------------------------------------------ C28
\* At least one configured gpu id has a worker handle, and every one that
\* has a worker handle has its idle-signal file.
EveryHandledUnitFlagged ==
    /\ \E g \in GpuSet : WORKER_PIDS[g] # 0
    /\ \A g \in GpuSet : WORKER_PIDS[g] # 0 => flagFile[g]

\* A fleet-wide teardown decided by the idle check is under way or done.
IdleShutdown == path \in {"idle_local", "idle_instance"}

\* (C28) Every pass of the monitoring loop starts with the idle check and
\* the health loop is entered only from it; when the idle check finds every
\* unit that has a worker handle flagged, it starts the fleet-wide teardown
\* in that pass, whether or not processes of those units are dead, and from
\* then on no unit is examined, torn down on its own or launched and no
\* process is spawned.
C28_IdleCheckFirst ==
    /\ [][ (pc = "remaining" /\ pc' # "remaining" /\ ~trapRunning')
             => pc' \in {"check_flags", "ms_term"} ]_vars
    /\ [][ (pc' = "health" /\ pc \notin {"health", "sw_worker"})
             => pc = "check_flags" ]_vars
    /\ [][ (pc = "check_flags" /\ pc' # "check_flags" /\ ~trapRunning'
              /\ EveryHandledUnitFlagged)
             => /\ pc' \in {"ca_term", "ms_term"}
                /\ IdleShutdown'
                /\ UNCHANGED << handles, procs, signals >> ]_vars
    /\ [][ (pc = "check_flags" /\ pc' # "check_flags" /\ ~trapRunning'
              /\ ~EveryHandledUnitFlagged)
             => pc' = "health" /\ i' = 1 /\ ~IdleShutdown' ]_vars
    /\ [](IdleShutdown =>
            pc \in {"ca_term", "ca_kill", "ms_term", "ms_kill", "terminate",
                    "exited"})
    /\ [][ IdleShutdown => UNCHANGED << handles, ptable >> ]_vars

\* The idle check has decided the fleet-wide teardown with both units
\* flagged while a recorded process of a unit is dead: no unit was restarted
\* (six processes were ever spawned).
C28_Witness ==
    /\ IdleShutdown
    /\ pc \in {"ca_term", "ms_term"}
    /\ ~trapRunning
    /\ NUM_GPUS = 2
    /\ Len(ptable) = 6
    /\ \E g \in GpuSet : DeadIn(g)
    /\ \A g \in GpuSet : flagFile[g]

\* ------------------------------------------------------------------ C29
\* (C29) In cleanup_worker, cleanup_all and cleanup_for_machine_shutdown a
\* process is sent KILL only by a command that follows the sleep of its
\* teardown and only if it was sent TERM before that sleep; TERM and KILL
\* go only to processes that exist, so a process that is dead when the
\* teardown starts is sent neither.
C29_TermThenKill ==
    /\ [](sigKILL \subseteq sigTERM)
    /\ [][ \A p \in sigKILL' \ sigKILL :
             /\ p \in sigTERM
             /\ p \in alive
             /\ pc \in {"cw_comfyui_kill", "cw_worker_kill",
                        "cw_cloudflared_kill", "ca_kill", "ms_kill"} ]_vars
    /\ [][ \A p \in sigTERM' \ sigTERM :
             /\ p \in alive
             /\ pc \in {"cw_comfyui", "cw_worker", "cw_cloudflared",
                        "ca_term", "ms_term", "ca_kill", "ms_kill"} ]_vars

\* cleanup_worker has gone through the three handles of a unit: the two
\* processes that existed were each sent TERM and then KILL, the dead one
\* nothing.
C29_Witness ==
    /\ pc = "cw_rm"
    /\ caller = "monitor"
    /\ ~trapRunning
    /\ Cardinality(HandlesOf(GPUS[i])) = 3
    /\ Cardinality(sigKILL) = 2
    /\ sigKILL = sigTERM
    /\ sigKILL \subseteq HandlesOf(GPUS[i])

\* ------------------------------------------------------------------ C30
\* (C30) When a pass of the health loop has ended (line 424 is reached),
\* every configured gpu id has a worker handle, so the count of lines
\* 425-431 is the number of configured units and is not zero; a worker
\* handle is cleared only by cleanup_worker on its way to start_worker for
\* the same gpu id, and while the monitoring loop runs a configured gpu id
\* is without a worker handle only during that start_worker call.
C30_HandlesAtPassEnd ==
    /\ [](pc = "remaining" =>
             /\ \A g \in GpuSet : WORKER_PIDS[g] # 0
             /\ remaining_active = NUM_GPUS
             /\ remaining_active > 0)
    /\ [][ \A g \in GpuIds :
             (WORKER_PIDS[g] # 0 /\ WORKER_PIDS'[g] = 0)
             => (pc = "cw_rm" /\ pc' = "sw_backend" /\ GPUS[i] = g /\ i' = i) ]_vars
    /\ [](\A g \in GpuSet :
             (caller = "monitor" /\ ~trapRunning /\ WORKER_PIDS[g] = 0)
             => (LaunchInProgress /\ GPUS[i] = g))
    /\ [][ (LaunchInProgress /\ caller = "monitor" /\ ~LaunchInProgress'
              /\ ~trapRunning')
             => WORKER_PIDS'[GPUS[i]] \notin PIDS \cup {0} ]_vars

\* A pass in which the second unit was restarted has ended: both units have
\* a worker handle, the second one's is the process spawned last.
C30_Witness ==
    /\ pc = "remaining"
    /\ ~trapRunning
    /\ NUM_GPUS = 2
    /\ remaining_active = 2
    /\ WORKER_PIDS[GPUS[2]] = 9
    /\ WORKER_PIDS[GPUS[1]] = 3

\* ------------------------------------------------------------------ C31
\* (C31) terminate_ec2_instance runs at most once in an execution: its one
\* call is made from the idle check or from the no-active-workers branch,
\* with --shutdown_machine given, outside the signal handler, and is
\* followed by exit; the registration watchdog is never started, so it adds
\* no call; once cleanup_all has been entered, by the idle check without
\* --shutdown_machine or by a signal, no call is or has been made.
C31_AtMostOneTermination ==
    /\ [](terminateCalls <= 1)
    /\ [][ terminateCalls' # terminateCalls =>
             /\ terminateCalls = 0
             /\ terminateCalls' = 1
             /\ pc = "terminate"
             /\ pc' = "exited"
             /\ path \in {"idle_instance", "no_active"}
             /\ SHUTDOWN_MACHINE_FLAG
             /\ ~trapRunning ]_vars
    /\ []((path = "idle_local" \/ trapRunning) => terminateCalls = 0)
    /\ [][ (path = "idle_local" \/ trapRunning)
             => (path' = path /\ (trapRunning => trapRunning')
                 /\ pc' \in {"ca_term", "ca_kill", "exited"}) ]_vars
    /\ [](watchdog = "not_started")

\* The idle check took the instance path with an instance id: the aws call
\* was made once and succeeded, no power-off followed, the watchdog never
\* ran, the supervisor has exited.
C31_Witness ==
    /\ pc = "exited"
    /\ path = "idle_instance"
    /\ INSTANCE_ID # ""
    /\ terminateCalls = 1
    /\ awsResult = "ok"
    /\ powerOffs = 0
    /\ watchdog = "not_started"

\* ------------------------------------------------------------------ C32
\* (C32) As claimed: once the idle check has decided the instance teardown,
\* terminate_ec2_instance is eventually called, signal or no signal.
C32_Original == (path = "idle_instance") ~> (terminateCalls = 1)

\* (C32) As the script has it: SIGINT/SIGTERM is taken at every command of
\* cleanup_for_machine_shutdown and before terminate_ec2_instance; the
\* handler is cleanup_all, which ends in exit 0, so after a signal neither
\* the aws call nor the power-off is ever made; without a signal the call is
\* eventually made.
C32_SignalCancelsTermination ==
    /\ []((path = "idle_instance" /\ ~trapRunning /\ pc # "exited")
             => (pc \in {"ms_term", "ms_kill", "terminate"}
                 /\ ENABLED trap_signal))
    /\ [][ (path = "idle_instance" /\ ~trapRunning /\ trapRunning')
             => (pc' = "ca_term" /\ UNCHANGED << instance, path, signals >>) ]_vars
    /\ []((path = "idle_instance" /\ trapRunning)
             => (terminateCalls = 0 /\ powerOffs = 0 /\ awsResult = "none"
                 /\ pc \in {"ca_term", "ca_kill", "exited"}))
    /\ [][ (path = "idle_instance" /\ trapRunning) => trapRunning' ]_vars
    /\ ((path = "idle_instance") ~> (terminateCalls = 1 \/ trapRunning))
    /\ ((path = "idle_instance" /\ trapRunning) ~> pc = "exited")

\* A signal was taken between the TERM loop and the KILL loop of
\* cleanup_for_machine_shutdown: the supervisor has exited through
\* cleanup_all without the termination call and without a power-off.
C32_Witness ==
    /\ path = "idle_instance"
    /\ trapRunning
    /\ pc = "exited"
    /\ sigTERM # {}
    /\ terminateCalls = 0
    /\ powerOffs = 0

\* ------------------------------------------------------------------ C33
\* (C33) With job workers that get no work, the idle check eventually
\* decides a fleet-wide teardown (unless SIGINT/SIGTERM ends the supervisor
\* first).
C33_IdleFleetShutsDown == <>(IdleShutdown \/ trapRunning)

\* ========================================================= worker sidebar
\* The OboboWorkerManager object of src/worker/js/obobo-worker-manager.js.
\* JavaScript runs one handler at a time up to its next await; a request
\* sent by fetchApi is in flight until the handler that awaits it resumes.
\* The text elements (#obobo-status, #obobo-details) and the toasts are
\* left out: no handler reads them.

\* Requests of one endpoint explored in flight at the same time.
MaxInFlight == 2

\* Largest worker count the status endpoint reports.
MaxWorkers == 1

\* What a /obobo/worker_status request can come to: fetchApi or json()
\* throws, the body has no success, or the body has success and the counts
\* (result.active_workers || 0, result.total_workers || 0).
StatusResults ==
    { [outcome |-> o, active_workers |-> 0, total_workers |-> 0] :
        o \in {"throws", "failure"} }
    \cup
    { [outcome |-> "success", active_workers |-> a, total_workers |-> t] :
        a \in 0..MaxWorkers, t \in 0..MaxWorkers }

\* What a POST to start_worker, stop_worker or resume_worker can come to.
PostResults == {"success", "failure", "throws"}

Visible(b) == display[b] \in {"", "block"}

\* Lines 58-110: the buttons' style.display after updateSidebarContent,
\* called with the fields has (hasWorkerProcess) and active (isWorkerActive);
\* nothing is done without a rendered sidebar.
updateSidebarContent(d, el, has, active) ==
    IF ~el THEN d
    ELSE [b \in Buttons |->
            CASE b = "start"  -> IF ~has THEN "block" ELSE "none"
              [] b = "stop"   -> IF has /\ active THEN "block" ELSE "none"
              [] b = "resume" -> IF has /\ ~active THEN "block" ELSE "none"
              [] b = "claim"  -> IF has THEN "block" ELSE "none"]

\* Lines 698-752: the buttons as the render callback creates them.
Created ==
    [b \in Buttons |-> IF b = "start" THEN "" ELSE "none"]

\* Lines 7-25 (and 641): the state after construction; the constructor has
\* called loadWorkerStatus, whose request is in flight.
SidebarInit ==
    /\ Parsed
    /\ RwNotRun
    /\ GPUS = << 0 >>
    /\ INSTANCE_ID = ""
    /\ ~SHUTDOWN_MACHINE_FLAG
    /\ flagContent = "SHUTDOWN_PROCESS"
    /\ \A g \in GpuIds : ~flagFile[g]
    /\ workerStatus = "No Worker"
    /\ isWorkerActive = FALSE
    /\ hasWorkerProcess = FALSE
    /\ activeWorkers = 0
    /\ totalWorkers = 0
    /\ sidebarElement = FALSE
    /\ display = [b \in Buttons |-> "absent"]
    /\ inflight = [e \in Endpoints |-> IF e = "worker_status" THEN 1 ELSE 0]
    /\ result = [outcome |-> "none", active_workers |-> 0, total_workers |-> 0]
    /\ consoleError = ""

\* Everything of the two scripts, which the sidebar leaves alone.
scripts == << part001, runWorkers >>

\* Lines 650-812: the render callback of the sidebar tab creates the
\* buttons and ends with updateSidebarContent.
render ==
    /\ sidebarElement' = TRUE
    /\ display' = updateSidebarContent(Created, TRUE, hasWorkerProcess,
                                       isWorkerActive)
    /\ UNCHANGED << workerStatus, isWorkerActive, hasWorkerProcess,
                    activeWorkers, totalWorkers, inflight, result,
                    consoleError, scripts >>

\* Lines 22-24, 27-29: the 10-second timer calls loadWorkerStatus, which
\* sends the status request and awaits it.
loadWorkerStatus ==
    /\ inflight["worker_status"] < MaxInFlight
    /\ inflight' = [inflight EXCEPT !["worker_status"] = @ + 1]
    /\ UNCHANGED << workerStatus, isWorkerActive, hasWorkerProcess,
                    activeWorkers, totalWorkers, sidebarElement, display,
                    result, consoleError, scripts >>

\* Variant of loadWorkerStatus_await that reads the counts of a response
\* whatever its success.
loadWorkerStatus_await_unchecked ==
    /\ inflight["worker_status"] > 0
    /\ inflight' = [inflight EXCEPT !["worker_status"] = @ - 1]
    /\ \E r \in StatusResults :
          /\ result' = r
          /\ activeWorkers' = r.active_workers
          /\ totalWorkers' = r.total_workers
          /\ hasWorkerProcess' = (r.total_workers > 0)
          /\ workerStatus' =
                IF r.active_workers > 0 THEN "Active"
                ELSE IF r.total_workers > 0 THEN "Inactive"
                ELSE "No Worker"
          /\ isWorkerActive' = (r.active_workers > 0)
          /\ display' = updateSidebarContent(display, sidebarElement,
                           r.total_workers > 0, r.active_workers > 0)
          /\ UNCHANGED consoleError
    /\ UNCHANGED << sidebarElement, scripts >>

\* Lines 30-55: a status request resolves and loadWorkerStatus resumes.
loadWorkerStatus_await ==
    /\ inflight["worker_status"] > 0
    /\ inflight' = [inflight EXCEPT !["worker_status"] = @ - 1]
    /\ \E r \in StatusResults :
          /\ result' = r
          /\ IF r.outcome = "success"
             THEN /\ activeWorkers' = r.active_workers
                  /\ totalWorkers' = r.total_workers
                  /\ hasWorkerProcess' = (r.total_workers > 0)
                  /\ workerStatus' =
                        IF r.active_workers > 0 THEN "Active"
                        ELSE IF r.total_workers > 0 THEN "Inactive"
                        ELSE "No Worker"
                  /\ isWorkerActive' = (r.active_workers > 0)
                  /\ display' = updateSidebarContent(display, sidebarElement,
                                   r.total_workers > 0, r.active_workers > 0)
                  /\ UNCHANGED consoleError
             ELSE /\ consoleError' =
                        IF r.outcome = "throws"
                        THEN "Failed to load worker status" ELSE consoleError
                  /\ UNCHANGED << workerStatus, isWorkerActive,
                                  hasWorkerProcess, activeWorkers,
                                  totalWorkers, display >>
    /\ UNCHANGED << sidebarElement, scripts >>

\* Variant of startWorker without the test of lines 139-142.
startWorker_unguarded ==
    /\ inflight["start_worker"] < MaxInFlight
    /\ workerStatus' = "Starting..."
    /\ display' = updateSidebarContent(display, sidebarElement,
                                       hasWorkerProcess, isWorkerActive)
    /\ inflight' = [inflight EXCEPT !["start_worker"] = @ + 1]
    /\ UNCHANGED << isWorkerActive, hasWorkerProcess, activeWorkers,
                    totalWorkers, sidebarElement, result, consoleError,
                    scripts >>

\* Lines 138-166: startWorker up to its first await: it returns when a
\* worker process exists, otherwise shows "Starting..." and sends the
\* start request.
startWorker ==
    IF hasWorkerProcess
    THEN /\ consoleError' = "Worker process already exists"
         /\ UNCHANGED << workerStatus, isWorkerActive, hasWorkerProcess,
                         activeWorkers, totalWorkers, sidebarElement,
                         display, inflight, result, scripts >>
    ELSE /\ inflight["start_worker"] < MaxInFlight
         /\ workerStatus' = "Starting..."
         /\ display' = updateSidebarContent(display, sidebarElement,
                                            hasWorkerProcess, isWorkerActive)
         /\ inflight' = [inflight EXCEPT !["start_worker"] = @ + 1]
         /\ UNCHANGED << isWorkerActive, hasWorkerProcess, activeWorkers,
                         totalWorkers, sidebarElement, result, consoleError,
                         scripts >>

\* Lines 168-200: a start request resolves.  On success hasWorkerProcess is
\* set and loadWorkerStatus is called and awaited (its request is sent);
\* otherwise the catch block resets the flags and redraws the buttons.
startWorker_await ==
    /\ inflight["start_worker"] > 0
    /\ \E r \in PostResults :
          IF r = "success"
          THEN /\ inflight["worker_status"] < MaxInFlight
               /\ hasWorkerProcess' = TRUE
               /\ inflight' = [inflight EXCEPT
                                 !["start_worker"] = @ - 1,
                                 !["worker_status"] = @ + 1]
               /\ UNCHANGED << workerStatus, isWorkerActive, display,
                               consoleError >>
          ELSE /\ workerStatus' = "Failed to start"
               /\ isWorkerActive' = FALSE
               /\ hasWorkerProcess' = FALSE
               /\ display' = updateSidebarContent(display, sidebarElement,
                                                  FALSE, FALSE)
               /\ inflight' = [inflight EXCEPT !["start_worker"] = @ - 1]
               /\ consoleError' = "Failed to start worker"
    /\ UNCHANGED << activeWorkers, totalWorkers, sidebarElement, result,
                    scripts >>

\* Lines 203-231: stopWorker up to its first await: it returns unless a
\* worker exists and is active, otherwise shows "Updating..." and sends the
\* stop request.
stopWorker ==
    IF ~hasWorkerProcess \/ ~isWorkerActive
    THEN /\ consoleError' = "No active worker to stop"
         /\ UNCHANGED << workerStatus, isWorkerActive, hasWorkerProcess,
                         activeWorkers, totalWorkers, sidebarElement,
                         display, inflight, result, scripts >>
    ELSE /\ inflight["stop_worker"] < MaxInFlight
         /\ workerStatus' = "Updating..."
         /\ display' = updateSidebarContent(display, sidebarElement,
                                            hasWorkerProcess, isWorkerActive)
         /\ inflight' = [inflight EXCEPT !["stop_worker"] = @ + 1]
         /\ UNCHANGED << isWorkerActive, hasWorkerProcess, activeWorkers,
                         totalWorkers, sidebarElement, result, consoleError,
                         scripts >>

\* The catch block of stopWorker (lines 248-258) and of resumeWorker
\* (lines 306-316): the flags are kept, the buttons are redrawn.
UpdateFailed(endpoint, message) ==
    /\ workerStatus' = "Failed to update"
    /\ display' = updateSidebarContent(display, sidebarElement,
                                       hasWorkerProcess, isWorkerActive)
    /\ inflight' = [inflight EXCEPT ![endpoint] = @ - 1]
    /\ consoleError' = message

\* After result.success in stopWorker (lines 235-238) and resumeWorker
\* (lines 293-296): loadWorkerStatus is called and awaited.
UpdateSucceeded(endpoint) ==
    /\ inflight["worker_status"] < MaxInFlight
    /\ inflight' = [inflight EXCEPT ![endpoint] = @ - 1,
                                    !["worker_status"] = @ + 1]
    /\ UNCHANGED << workerStatus, display, consoleError >>

\* Lines 233-258: a stop request resolves.
stopWorker_await ==
    /\ inflight["stop_worker"] > 0
    /\ \E r \in PostResults :
          IF r = "success"
          THEN UpdateSucceeded("stop_worker")
          ELSE UpdateFailed("stop_worker", "Failed to stop worker")
    /\ UNCHANGED << isWorkerActive, hasWorkerProcess, activeWorkers,
                    totalWorkers, sidebarElement, result, scripts >>

\* Lines 261-289: resumeWorker up to its first await: it returns unless a
\* worker exists and is inactive, otherwise shows "Updating..." and sends
\* the resume request.
resumeWorker ==
    IF ~hasWorkerProcess \/ isWorkerActive
    THEN /\ consoleError' = "No inactive worker to resume"
         /\ UNCHANGED << workerStatus, isWorkerActive, hasWorkerProcess,
                         activeWorkers, totalWorkers, sidebarElement,
                         display, inflight, result, scripts >>
    ELSE /\ inflight["resume_worker"] < MaxInFlight
         /\ workerStatus' = "Updating..."
         /\ display' = updateSidebarContent(display, sidebarElement,
                                            hasWorkerProcess, isWorkerActive)
         /\ inflight' = [inflight EXCEPT !["resume_worker"] = @ + 1]
         /\ UNCHANGED << isWorkerActive, hasWorkerProcess, activeWorkers,
                         totalWorkers, sidebarElement, result, consoleError,
                         scripts >>

\* Lines 291-316: a resume request resolves.
resumeWorker_await ==
    /\ inflight["resume_worker"] > 0
    /\ \E r \in PostResults :
          IF r = "success"
          THEN UpdateSucceeded("resume_worker")
          ELSE UpdateFailed("resume_worker", "Failed to resume worker")
    /\ UNCHANGED << isWorkerActive, hasWorkerProcess, activeWorkers,
                    totalWorkers, sidebarElement, result, scripts >>

SidebarNext ==
    \/ render
    \/ loadWorkerStatus
    \/ loadWorkerStatus_await
    \/ startWorker
    \/ startWorker_await
    \/ stopWorker
    \/ stopWorker_await
    \/ resumeWorker
    \/ resumeWorker_await

\* The sidebar with any clicks, any timing of the responses and any answers
\* of the server.
SidebarSpec == SidebarInit /\ [][SidebarNext]_vars

\* ------------------------------------------------------------------ C34
\* (C34) For every accepted gpu list, a list that repeats a gpu id
\* included, every running process the supervisor has spawned is referenced
\* by a handle of its gpu id (COMFYUI_PIDS, CLOUDFLARED_PIDS or WORKER_PIDS),
\* so that the health loop tests it and cleanup_worker signals it.
C34_EveryProcessHandled ==
    \A p \in alive : p \in HandlesOf(ptable[p].gpu)

\* ------------------------------------------------------------------ C39
\* (C39) The pids in PIDS, which cleanup_all and
\* cleanup_for_machine_shutdown signal, are exactly the pids named by the
\* per-gpu handles COMFYUI_PIDS, CLOUDFLARED_PIDS and WORKER_PIDS: the pid of
\* a process that a restart has replaced is no longer in PIDS.
C39_TrackedEqualsHandles ==
    PIDS = UNION { HandlesOf(g) : g \in GpuIds }

\* ------------------------------------------------------------------ C35
\* No request is in flight: every handler that was started has returned.
Settled == \A e \in Endpoints : inflight[e] = 0

\* (C35) On a rendered sidebar, once every status load and every start,
\* stop and resume action has returned, exactly one of the Start, Set
\* Inactive and Set Active buttons is visible: Start iff no worker process
\* exists, Set Inactive iff a worker exists and is active, Set Active iff a
\* worker exists and is inactive; Claim is visible iff a worker exists.
C35_ButtonsMatchState ==
    (sidebarElement /\ Settled) =>
        /\ Cardinality({ b \in {"start", "stop", "resume"} : Visible(b) }) = 1
        /\ Visible("start") <=> ~hasWorkerProcess
        /\ Visible("stop") <=> (hasWorkerProcess /\ isWorkerActive)
        /\ Visible("resume") <=> (hasWorkerProcess /\ ~isWorkerActive)
        /\ Visible("claim") <=> hasWorkerProcess

\* ------------------------------------------------------------------ C36
\* The fields of the manager and the requests it has sent.
managerState ==
    << workerStatus, isWorkerActive, hasWorkerProcess, activeWorkers,
       totalWorkers, sidebarElement, display, inflight, result >>

\* (C36) startWorker called while a worker process exists sends no request
\* and changes no field; so does stopWorker unless a worker exists and is
\* active, and resumeWorker unless a worker exists and is inactive.
C36_GuardedActions ==
    /\ [][(startWorker /\ hasWorkerProcess) => UNCHANGED managerState]_vars
    /\ [][(stopWorker /\ ~(hasWorkerProcess /\ isWorkerActive))
            => UNCHANGED managerState]_vars
    /\ [][(resumeWorker /\ ~(hasWorkerProcess /\ ~isWorkerActive))
            => UNCHANGED managerState]_vars

\* startWorker has been called while a worker process existed and has
\* returned at its test.
C36_Witness ==
    /\ hasWorkerProcess
    /\ consoleError = "Worker process already exists"
    /\ inflight["start_worker"] = 0

\* ------------------------------------------------------------------ C37
\* (C37) When a status request resolves with success, the status shown is
\* Active iff active_workers > 0, Inactive iff active_workers = 0 and
\* total_workers > 0, and No Worker otherwise; when the request throws or
\* the response has no success, workerStatus, isWorkerActive and
\* hasWorkerProcess are left as they were.
C37_StatusFromResponse ==
    [][loadWorkerStatus_await =>
          LET r == result'
          IN  /\ r.outcome = "success" =>
                   /\ workerStatus' = "Active" <=> r.active_workers > 0
                   /\ workerStatus' = "Inactive" <=>
                         (r.active_workers = 0 /\ r.total_workers > 0)
                   /\ workerStatus' = "No Worker" <=>
                         (r.active_workers = 0 /\ r.total_workers = 0)
              /\ r.outcome # "success" =>
                   UNCHANGED << workerStatus, isWorkerActive,
                                hasWorkerProcess >> ]_vars

\* A status response with success, no active worker and one registered
\* worker has been handled.
C37_Witness ==
    /\ result.outcome = "success"
    /\ result.active_workers = 0
    /\ result.total_workers > 0
    /\ workerStatus = "Inactive"
    /\ ~isWorkerActive
    /\ hasWorkerProcess

\* ------------------------------------------------------------------ C38
\* (C38) At most one /obobo/start_worker request is in flight at any time.
C38_OneStartInFlight ==
    inflight["start_worker"] <= 1

====
